---- MODULE Spec2Model ----
(***************************************************************************)
(* A state-machine model of evil-android (src/src/main.rs and              *)
(* src/src/platform*.rs): the masked image compositor, the row-glitch      *)
(* engine, the noise injector and the draw loop with its supervisor.       *)
(*                                                                         *)
(* Each subsystem has its own specification over the shared variables:     *)
(*   SpecMask   MaskedImage::new / MaskedImage::draw                       *)
(*   SpecGlitch glitch, one scanline per step                              *)
(*   SpecNoise  add_noise                                                  *)
(*   Spec       main / draw_loop                                           *)
(*   SpecNoErrors  main / draw_loop when no LED or LCD operation fails      *)
(*   SpecFormat format_duration                                            *)
(*   SpecBrightness  Brightness::from                                      *)
(*   SpecJitter intensify at the jitter amplitude of a shade               *)
(*   SpecVec    VecFrameBufferBackend: new, set, get, nr_elements           *)
(*   SpecSync   the PC backend: the thread of main and the window thread    *)
(*   SpecSyncFair  the same under fair scheduling of the two threads        *)
(***************************************************************************)
EXTENDS Integers, Sequences, FiniteSets, TLC

\* ------------------------------------------------------------------ bounds
\* Largest width / height of a color or mask image (SpecMask).
MaxImgDim == 2
\* Width and height of the draw target used in SpecMask.
MaskTargetDim == 2
\* Largest |x|, |y| of the placement offset of a masked image (SpecMask).
MaxPos == 1
\* Largest width / height of the buffer handed to glitch (SpecGlitch).
MaxGlitchWidth == 5
MaxGlitchHeight == 2
\* Largest number of pixels of that buffer.
MaxGlitchPixels == 10
\* Largest max_offset handed to glitch (SpecGlitch).
MaxOffset == 5
\* Largest number of pixels of the buffer handed to add_noise (SpecNoise).
MaxNoisePixels == 3
\* Width and height of the LCD the draw loop renders to (Spec).
LcdWidth == 2
LcdHeight == 1
\* Width and height of the dumpster-fire image (Spec).
DumpsterWidth == 2
DumpsterHeight == 1
\* Largest reading of the clock (Spec); the clock stops there.
MaxNow == 1
\* Largest number of whole years in a Duration handed to format_duration.
MaxFormatYears == 2
\* How far below 0.0 and above 1.0 the values handed to Brightness::from go,
\* in units of 1 / BRIGHTNESS_ONE (SpecBrightness).
MaxBrightnessExcess == 20
\* Largest width / height of a VecFrameBufferBackend, and the largest number
\* of set calls on one backend (SpecVec).
MaxVecDim == 2
MaxVecSets == 2
\* Number of pixels of the shared buffer of the PC backend, and the number of
\* distinct frames the thread of main writes before the values repeat (SpecSync).
SyncPixels == 2
MaxSyncFrames == 2

\* ------------------------------------------------------------- primitives
Min(a, b) == IF a <= b THEN a ELSE b
Max(a, b) == IF a >= b THEN a ELSE b

\* Rgb565::new(r, g, b): a color is its three channels.
Rgb565(r, g, b) == <<r, g, b>>
BLACK == Rgb565(0, 0, 0)
WHITE == Rgb565(31, 63, 31)

\* Point::new(x, y)
Point(x, y) == <<x, y>>
PointAdd(p, q) == <<p[1] + q[1], p[2] + q[2]>>
PointSub(p, q) == <<p[1] - q[1], p[2] - q[2]>>

\* Rectangle of an OriginDimensions image: top_left = (0,0), size = (w,h).
BoundingBox(img) == [top_left |-> Point(0, 0), size |-> <<img.w, img.h>>]
\* Rectangle::bottom_right(): top_left + size - (1,1), the last pixel inside.
BottomRight(bb) == Point(bb.top_left[1] + bb.size[1] - 1, bb.top_left[2] + bb.size[2] - 1)

\* A raster image: w, h and row-major data over 0 .. w*h-1.
ImagePixel(img, p) == img.data[p[2] * img.w + p[1]]
InImage(img, p) == p[1] \in 0 .. (img.w - 1) /\ p[2] \in 0 .. (img.h - 1)

\* The color raster used as input: pixel i carries the tag color (i+1, 0, 0).
TaggedColorImage(w, h) ==
    [w |-> w, h |-> h, data |-> [i \in 0 .. (w * h - 1) |-> Rgb565(i + 1, 0, 0)]]
MaskImages(w, h) ==
    {[w |-> w, h |-> h, data |-> d] : d \in [0 .. (w * h - 1) -> BOOLEAN]}

\* FrameBuf as DrawTarget: draw_iter sets every pixel inside the view and
\* drops the others.
RECURSIVE DrawIter(_, _, _, _)
DrawIter(data, w, h, pixels) ==
    IF pixels = <<>> THEN data
    ELSE LET px == Head(pixels)
             p == px[1]
             inside == p[1] \in 0 .. (w - 1) /\ p[2] \in 0 .. (h - 1)
             next == IF inside THEN [data EXCEPT ![p[2] * w + p[1]] = px[2]] ELSE data
         IN DrawIter(next, w, h, Tail(pixels))

\* ------------------------------------------------------------------ state
VARIABLES
    \* --- MaskedImage (SpecMask)
    arg_color,      \* color image handed to the last MaskedImage::new
    arg_mask,       \* mask image handed to the last MaskedImage::new
    new_result,     \* "none" | "Ok" | "Err": what MaskedImage::new returned
    masked,         \* the constructed MaskedImage, or NoImage
    mi_pixels,      \* the pixel stream draw handed to draw_iter
    target,         \* the draw target's data after draw
    mi_drawn,       \* TRUE once draw has run
    \* --- one call of glitch or add_noise on a FrameBuf (SpecGlitch, SpecNoise)
    fb_width,       \* fb.width()
    fb_height,      \* fb.height()
    fb_data,        \* fb.data: index -> color
    fx_pc,          \* "idle" | "ready" | "loop" | "noise" | "done" | "panic"
    fx_pre,         \* fb.data when the function was called
    rng_count,      \* random values consumed by the call so far
    g_max_offset,   \* glitch: the max_offset argument
    g_line,         \* glitch: the next scanline of the for loop
    g_row_pre,      \* glitch: fb.data before the last processed scanline
    g_last,         \* glitch: what the last processed scanline did
    g_log,          \* glitch: the get/set calls of the last processed scanline
    n_intensity,    \* add_noise: the Intensity argument (its .0)
    n_index,        \* add_noise: the next index of the for loop
    n_last,         \* add_noise: the last processed index and its apply_noise draw
    n_writes,       \* add_noise: the set calls so far, <<index, color>>
    \* --- main / draw_loop (Spec)
    pc,             \* where the thread of main is
    returned,       \* "none" | "Err": what the last draw_loop call returned
    buffer,         \* buffer.pixels of draw_loop: index -> color
    led0,           \* brightness last set on led0 (numerator over BRIGHTNESS_ONE)
    led1,           \* brightness last set on led1
    now,            \* the clock Instant::now() reads
    start_time,     \* start_time of the pass
    curr_time,      \* curr_time of the shade
    glitchiness,    \* glitchiness of the pass
    idx,            \* index of the shade
    frame,          \* frame within the shade
    noise_frame,    \* frame within the noise burst
    intensity,      \* jitter amplitude of the shade
    exaggeration,   \* exaggeration of the frame (see Exaggeration)
    exaggerated_str,\* the time string of the frame
    brightness,     \* brightness of the frame
    ops,            \* the platform and buffer operations of the current frame, in order
    shown,          \* frames presented so far in the current pass
    slept_ms,       \* milliseconds of platform.sleep in the current frame
    \* --- format_duration (SpecFormat)
    fmt_d,          \* the Duration of the last call, or NoDuration
    fmt_out,        \* the String the last call returned
    \* --- Brightness::from (SpecBrightness)
    br_in,          \* the f32 of the last call (numerator over BRIGHTNESS_ONE)
    br_out,         \* the Brightness the last call returned
    jit_idx,        \* the shade index of the last intensify call
    jit_amp,        \* its amplitude
    jit_anchor,     \* the point it returned
    jit_rng,        \* the values it took from the random number generator
    \* --- VecFrameBufferBackend (SpecVec)
    vec_size,       \* size: <<width, height>>, or NoSize before new
    vec_fill,       \* the fill_color handed to new
    vec_pixels,     \* pixels: index -> color
    vec_sets,       \* the set calls that returned, in order: <<index, color>>
    vec_last,       \* the last call and what it returned
    \* --- PC backend (SpecSync)
    lock_pix,       \* owner of the Mutex of the pixel buffer: "none" | "director" | "presenter"
    lock_led0,      \* owner of the Mutex of led0
    lock_led1,      \* owner of the Mutex of led1
    sh_pixels,      \* Rgba32FrameBufferBackend.pixels: index -> frame that wrote it
    sh_led0,        \* the Brightness inside led0: the frame that wrote it
    sh_led1,        \* the Brightness inside led1
    dir_pc,         \* the call the thread of main is in, or "sleep"
    dir_step,       \* "call" | "locked" | "done": before lock(), holding the guard, access done
    dir_i,          \* index of the pixel the thread of main writes next
    dir_frame,      \* the frame the thread of main is presenting
    dir_got,        \* what the last get / nr_elements returned
    dir_cs,         \* accesses made under the guard the thread of main holds
    pres_pc,        \* where the RedrawRequested handler is
    pres_i,         \* to_gl_texture: the next pixel to read
    pres_texture,   \* the texture built by to_gl_texture
    pres_led0,      \* u_left_eye_color as read
    pres_led1,      \* u_right_eye_color as read
    pres_holds0     \* TRUE while the handler still holds the guard of led0

mask_vars == <<arg_color, arg_mask, new_result, masked, mi_pixels, target, mi_drawn>>
fb_vars == <<fb_width, fb_height, fb_data, fx_pc, fx_pre, rng_count>>
glitch_vars == <<g_max_offset, g_line, g_row_pre, g_last, g_log>>
noise_vars == <<n_intensity, n_index, n_last, n_writes>>
fx_vars == <<fb_vars, glitch_vars, noise_vars>>

loop_vars == <<pc, returned, buffer, led0, led1, now, start_time, curr_time, glitchiness,
               idx, frame, noise_frame, intensity, exaggeration, exaggerated_str,
               brightness, ops, shown, slept_ms>>

fmt_vars == <<fmt_d, fmt_out>>
br_vars == <<br_in, br_out>>
vec_vars == <<vec_size, vec_fill, vec_pixels, vec_sets, vec_last>>
sync_vars == <<lock_pix, lock_led0, lock_led1, sh_pixels, sh_led0, sh_led1, dir_pc, dir_step,
               dir_i, dir_frame, dir_got, dir_cs, pres_pc, pres_i, pres_texture, pres_led0,
               pres_led1, pres_holds0>>
jit_vars == <<jit_idx, jit_amp, jit_anchor, jit_rng>>
rest_vars == <<fmt_vars, br_vars, vec_vars, sync_vars, jit_vars>>

vars == <<mask_vars, fx_vars, loop_vars, rest_vars>>

\* what the actions of one subsystem leave alone
MaskOnly == UNCHANGED <<fx_vars, loop_vars, rest_vars>>
GlitchOnly == UNCHANGED <<mask_vars, noise_vars, loop_vars, rest_vars>>
NoiseOnly == UNCHANGED <<mask_vars, glitch_vars, loop_vars, rest_vars>>
LoopOnly == UNCHANGED <<mask_vars, fx_vars, rest_vars>>
FormatOnly ==
    UNCHANGED <<mask_vars, fx_vars, loop_vars, br_vars, vec_vars, sync_vars, jit_vars>>
BrightnessOnly ==
    UNCHANGED <<mask_vars, fx_vars, loop_vars, fmt_vars, vec_vars, sync_vars, jit_vars>>
VecOnly ==
    UNCHANGED <<mask_vars, fx_vars, loop_vars, fmt_vars, br_vars, sync_vars, jit_vars>>
SyncOnly ==
    UNCHANGED <<mask_vars, fx_vars, loop_vars, fmt_vars, br_vars, vec_vars, jit_vars>>
JitterOnly ==
    UNCHANGED <<mask_vars, fx_vars, loop_vars, fmt_vars, br_vars, vec_vars, sync_vars>>

\* -------------------------------------------------------- format_duration
NoDuration == [none |-> TRUE]
FormatInit ==
    /\ fmt_d = NoDuration
    /\ fmt_out = ""

\* Display of an unsigned integer: its decimal digits, no padding
DecimalDigit(n) == <<"0", "1", "2", "3", "4", "5", "6", "7", "8", "9">>[n + 1]
RECURSIVE Decimal(_)
Decimal(n) == IF n < 10 THEN DecimalDigit(n) ELSE Decimal(n \div 10) \o DecimalDigit(n % 10)
\* the format spec {:02}: at least two characters, padded on the left with 0
PadNone(n) == Decimal(n)
Pad02(n) == IF Len(Decimal(n)) < 2 THEN "0" \o Decimal(n) ELSE Decimal(n)

\* main.rs:154-156
div_rem(a, b) == <<a \div b, a % b>>

\* main.rs:158-176; Duration::as_secs drops the sub-second part
format_duration(d) ==
    LET secs0 == d.secs
        ms == div_rem(secs0, 60)
        hm == div_rem(ms[1], 60)
        dh == div_rem(hm[1], 24)
        yd == div_rem(dh[1], 365)
        secs == ms[2]
        mins == hm[2]
        hrs == dh[2]
        days == yd[2]
        years == yd[1]
        s0 == ""
        s1 == IF years > 0 THEN s0 \o Decimal(years) \o "y " ELSE s0
        s2 == IF days > 0 THEN s1 \o Decimal(days) \o "d " ELSE s1
        s3 == IF hrs > 0 THEN s2 \o Decimal(hrs) \o ":" ELSE s2
    IN s3 \o Pad02(mins) \o ":" \o Pad02(secs)

\* The Durations handed to format_duration: every mix of least, small and
\* greatest value of each component, with and without a sub-second part.
FormatSeconds ==
    {(((y * 365 + d) * 24 + h) * 60 + m) * 60 + sec :
        y \in 0 .. MaxFormatYears, d \in {0, 1, 364}, h \in {0, 1, 23},
        m \in {0, 1, 2, 10, 59}, sec \in {0, 1, 9, 30, 59}}
FormatInputs == [secs : FormatSeconds, nanos : {0, 999999999}]

\* one call of format_duration
FormatDuration(d) ==
    /\ fmt_d' = d
    /\ fmt_out' = format_duration(d)
    /\ FormatOnly

FormatNext == \E d \in FormatInputs : FormatDuration(d)

\* -------------------------------------------------- VecFrameBufferBackend
NoSize == [none |-> TRUE]
NoCall == [op |-> "none"]
VecInit ==
    /\ vec_size = NoSize
    /\ vec_fill = BLACK
    /\ vec_pixels = <<>>
    /\ vec_sets = <<>>
    /\ vec_last = NoCall

\* the fill colors handed to new, and the colors handed to set
VecFills == {BLACK, WHITE}
VecColors == {WHITE, Rgb565(1, 0, 0)}
\* the indices handed to set and get: every valid one and two beyond
VecIndices == 0 .. (MaxVecDim * MaxVecDim + 1)

\* Vec indexing: pixels[index] panics unless index < pixels.len()
VecInBounds(pixels, index) == index \in DOMAIN pixels
\* main.rs:182  self.pixels[index] = color
VecStoreNowhere(pixels, index, color) == pixels
VecStore(pixels, index, color) == [pixels EXCEPT ![index] = color]

\* main.rs:146-151  VecFrameBufferBackend::new: vec![fill_color; width * height]
VecNew(w, h, fill) ==
    /\ vec_size = NoSize
    /\ vec_size' = <<w, h>>
    /\ vec_fill' = fill
    /\ vec_pixels' = [i \in 0 .. (w * h - 1) |-> fill]
    /\ vec_sets' = <<>>
    /\ vec_last' = [op |-> "new"]
    /\ VecOnly

\* main.rs:181-183  set
VecSet(index, color) ==
    /\ vec_size # NoSize
    /\ vec_last.op # "panic"
    /\ Len(vec_sets) < MaxVecSets
    /\ IF VecInBounds(vec_pixels, index)
       THEN /\ vec_pixels' = VecStore(vec_pixels, index, color)
            /\ vec_sets' = Append(vec_sets, <<index, color>>)
            /\ vec_last' = [op |-> "set", index |-> index]
       ELSE /\ vec_last' = [op |-> "panic", index |-> index]
            /\ UNCHANGED <<vec_pixels, vec_sets>>
    /\ UNCHANGED <<vec_size, vec_fill>>
    /\ VecOnly

\* main.rs:185-187  get
VecGet(index) ==
    /\ vec_size # NoSize
    /\ vec_last.op # "panic"
    /\ IF VecInBounds(vec_pixels, index)
       THEN vec_last' = [op |-> "get", index |-> index, value |-> vec_pixels[index]]
       ELSE vec_last' = [op |-> "panic", index |-> index]
    /\ UNCHANGED <<vec_size, vec_fill, vec_pixels, vec_sets>>
    /\ VecOnly

\* main.rs:189-191  nr_elements: width * height of the stored size
VecNrElements ==
    /\ vec_size # NoSize
    /\ vec_last.op # "panic"
    /\ vec_last' = [op |-> "nr_elements", value |-> vec_size[1] * vec_size[2]]
    /\ UNCHANGED <<vec_size, vec_fill, vec_pixels, vec_sets>>
    /\ VecOnly

VecNext ==
    \/ \E w \in 0 .. MaxVecDim, h \in 0 .. MaxVecDim, fill \in VecFills : VecNew(w, h, fill)
    \/ \E index \in VecIndices, color \in VecColors : VecSet(index, color)
    \/ \E index \in VecIndices : VecGet(index)
    \/ VecNrElements

\* ------------------------------------------------------------- PC backend
\* pc.rs:48-78 and 236-275.  The thread of main ("director") reaches the
\* shared state through SyncFBBackend and FakeLED; the window thread
\* ("presenter") reads it in the RedrawRequested handler.  A call is three
\* steps: lock() returns the guard, the access, the guard is dropped.
SyncIndices == 0 .. (SyncPixels - 1)

\* pc.rs:94-105 the state new_platform shares: black pixels, both LEDs at 0
SyncInit ==
    /\ lock_pix = "none"
    /\ lock_led0 = "none"
    /\ lock_led1 = "none"
    /\ sh_pixels = [i \in SyncIndices |-> 0]
    /\ sh_led0 = 0
    /\ sh_led1 = 0
    /\ dir_pc = "sleep"
    /\ dir_step = "call"
    /\ dir_i = 0
    /\ dir_frame = 0
    /\ dir_got = 0
    /\ dir_cs = 0
    /\ pres_pc = "idle"
    /\ pres_i = 0
    /\ pres_texture = [i \in SyncIndices |-> 0]
    /\ pres_led0 = 0
    /\ pres_led1 = 0
    /\ pres_holds0 = FALSE

\* Mutex::lock returns only when no thread holds the guard
CanAcquireAlways(owner) == TRUE
CanAcquire(owner) == owner = "none"

\* a guard that is leaked (kept alive) instead of dropped
GuardLeaked(owner) == owner
\* the MutexGuard is dropped: the Mutex is free again
DropGuard(owner) == "none"

\* the Mutex a call of the thread of main locks
DirResource == IF dir_pc = "led0" THEN "led0" ELSE IF dir_pc = "led1" THEN "led1" ELSE "pix"
DirCalls == {"led0", "led1", "set", "get", "nr_elements"}

\* main.rs:379, 303: between frames the thread of main holds nothing; it then
\* starts the next frame with led0, or FrameBuf reads the backend
DirBegin ==
    /\ dir_pc = "sleep"
    /\ \/ /\ dir_pc' = "led0"
          /\ dir_frame' = (dir_frame % MaxSyncFrames) + 1
          /\ dir_i' = 0
       \/ /\ dir_pc' = "nr_elements"
          /\ UNCHANGED <<dir_frame, dir_i>>
       \/ /\ dir_pc' = "get"
          /\ dir_i' \in SyncIndices
          /\ UNCHANGED dir_frame
    /\ dir_step' = "call"
    /\ UNCHANGED <<lock_pix, lock_led0, lock_led1, sh_pixels, sh_led0, sh_led1, dir_got,
                   dir_cs, pres_pc, pres_i, pres_texture, pres_led0, pres_led1, pres_holds0>>
    /\ SyncOnly

\* pc.rs:56, 60, 65, 75  self.0.lock().unwrap()
DirLock ==
    /\ dir_pc \in DirCalls
    /\ dir_step = "call"
    /\ \/ /\ DirResource = "led0" /\ CanAcquire(lock_led0)
          /\ lock_led0' = "director" /\ UNCHANGED <<lock_led1, lock_pix>>
       \/ /\ DirResource = "led1" /\ CanAcquire(lock_led1)
          /\ lock_led1' = "director" /\ UNCHANGED <<lock_led0, lock_pix>>
       \/ /\ DirResource = "pix" /\ CanAcquire(lock_pix)
          /\ lock_pix' = "director" /\ UNCHANGED <<lock_led0, lock_led1>>
    /\ dir_step' = "locked"
    /\ dir_cs' = 0
    /\ UNCHANGED <<sh_pixels, sh_led0, sh_led1, dir_pc, dir_i, dir_frame, dir_got, pres_pc,
                   pres_i, pres_texture, pres_led0, pres_led1, pres_holds0>>
    /\ SyncOnly

\* pc.rs:56 (set), 60 (get), 65 (nr_elements), 75 (set_brightness): the access
DirAccess ==
    /\ dir_pc \in DirCalls
    /\ dir_step = "locked"
    /\ sh_led0' = IF dir_pc = "led0" THEN dir_frame ELSE sh_led0
    /\ sh_led1' = IF dir_pc = "led1" THEN dir_frame ELSE sh_led1
    /\ sh_pixels' = IF dir_pc = "set" THEN [sh_pixels EXCEPT ![dir_i] = dir_frame]
                    ELSE sh_pixels
    /\ dir_got' = IF dir_pc = "get" THEN sh_pixels[dir_i]
                  ELSE IF dir_pc = "nr_elements" THEN SyncPixels
                  ELSE dir_got
    /\ dir_cs' = dir_cs + 1
    /\ dir_step' = "done"
    /\ UNCHANGED <<lock_pix, lock_led0, lock_led1, dir_pc, dir_i, dir_frame, pres_pc, pres_i,
                   pres_texture, pres_led0, pres_led1, pres_holds0>>
    /\ SyncOnly

\* the guard is dropped at the end of the statement; the call returns and the
\* thread of main goes on: led0, led1 (main.rs:345-346), then one set per
\* pixel (fill_contiguous, main.rs:374-377), then sleep
DirUnlock ==
    /\ dir_pc \in DirCalls
    /\ dir_step = "done"
    /\ lock_led0' = IF DirResource = "led0" THEN DropGuard(lock_led0) ELSE lock_led0
    /\ lock_led1' = IF DirResource = "led1" THEN DropGuard(lock_led1) ELSE lock_led1
    /\ lock_pix' = IF DirResource = "pix" THEN DropGuard(lock_pix) ELSE lock_pix
    /\ dir_pc' = IF dir_pc = "led0" THEN "led1"
                 ELSE IF dir_pc = "led1" THEN "set"
                 ELSE IF dir_pc = "set" /\ dir_i + 1 < SyncPixels THEN "set"
                 ELSE "sleep"
    /\ dir_i' = IF dir_pc = "set" THEN dir_i + 1 ELSE dir_i
    /\ dir_step' = "call"
    /\ UNCHANGED <<sh_pixels, sh_led0, sh_led1, dir_frame, dir_got, dir_cs, pres_pc, pres_i,
                   pres_texture, pres_led0, pres_led1, pres_holds0>>
    /\ SyncOnly

dir_unchanged == <<dir_pc, dir_step, dir_i, dir_frame, dir_got, dir_cs>>

\* pc.rs:244-246  pixel_buffer.0.lock().unwrap()
PresLockPixels ==
    /\ pres_pc = "idle"
    /\ CanAcquire(lock_pix)
    /\ lock_pix' = "presenter"
    /\ pres_pc' = "pix"
    /\ pres_i' = 0
    /\ UNCHANGED <<lock_led0, lock_led1, sh_pixels, sh_led0, sh_led1, dir_unchanged,
                   pres_texture, pres_led0, pres_led1, pres_holds0>>
    /\ SyncOnly

\* pc.rs:40-43  to_gl_texture copies self.pixels, one pixel after another
PresReadPixel ==
    /\ pres_pc = "pix"
    /\ pres_i < SyncPixels
    /\ pres_texture' = [pres_texture EXCEPT ![pres_i] = sh_pixels[pres_i]]
    /\ pres_i' = pres_i + 1
    /\ UNCHANGED <<lock_pix, lock_led0, lock_led1, sh_pixels, sh_led0, sh_led1, dir_unchanged,
                   pres_pc, pres_led0, pres_led1, pres_holds0>>
    /\ SyncOnly

\* pc.rs:249  end of `let texture = ...;`: the guard is dropped
PresUnlockPixels ==
    /\ pres_pc = "pix"
    /\ pres_i >= SyncPixels
    /\ lock_pix' = DropGuard(lock_pix)
    /\ pres_pc' = "led0"
    /\ UNCHANGED <<lock_led0, lock_led1, sh_pixels, sh_led0, sh_led1, dir_unchanged, pres_i,
                   pres_texture, pres_led0, pres_led1, pres_holds0>>
    /\ SyncOnly

\* pc.rs:252  led0_clone.0.lock().unwrap()
PresLockLed0 ==
    /\ pres_pc = "led0"
    /\ CanAcquire(lock_led0)
    /\ lock_led0' = "presenter"
    /\ pres_holds0' = TRUE
    /\ pres_pc' = "led0_locked"
    /\ UNCHANGED <<lock_pix, lock_led1, sh_pixels, sh_led0, sh_led1, dir_unchanged, pres_i,
                   pres_texture, pres_led0, pres_led1>>
    /\ SyncOnly

\* pc.rs:252  *guard
PresReadLed0 ==
    /\ pres_pc = "led0_locked"
    /\ pres_led0' = sh_led0
    /\ pres_pc' = "led0_read"
    /\ UNCHANGED <<lock_pix, lock_led0, lock_led1, sh_pixels, sh_led0, sh_led1, dir_unchanged,
                   pres_i, pres_texture, pres_led1, pres_holds0>>
    /\ SyncOnly

\* pc.rs:250-255  the guard of led0 is a temporary inside glium::uniform!: it
\* is dropped either before u_right_eye_color is evaluated (the macro binds
\* each uniform in a statement of its own) or with the whole `let uniforms`
PresUnlockLed0 ==
    /\ pres_pc = "led0_read"
    /\ pres_holds0
    /\ lock_led0' = DropGuard(lock_led0)
    /\ pres_holds0' = FALSE
    /\ UNCHANGED <<lock_pix, lock_led1, sh_pixels, sh_led0, sh_led1, dir_unchanged, pres_pc,
                   pres_i, pres_texture, pres_led0, pres_led1>>
    /\ SyncOnly

\* pc.rs:253  led1_clone.0.lock().unwrap()
PresLockLed1 ==
    /\ pres_pc = "led0_read"
    /\ CanAcquire(lock_led1)
    /\ lock_led1' = "presenter"
    /\ pres_pc' = "led1_locked"
    /\ UNCHANGED <<lock_pix, lock_led0, sh_pixels, sh_led0, sh_led1, dir_unchanged, pres_i,
                   pres_texture, pres_led0, pres_led1, pres_holds0>>
    /\ SyncOnly

\* pc.rs:253  *guard
PresReadLed1 ==
    /\ pres_pc = "led1_locked"
    /\ pres_led1' = sh_led1
    /\ pres_pc' = "led1_read"
    /\ UNCHANGED <<lock_pix, lock_led0, lock_led1, sh_pixels, sh_led0, sh_led1, dir_unchanged,
                   pres_i, pres_texture, pres_led0, pres_holds0>>
    /\ SyncOnly

\* pc.rs:255-269  end of `let uniforms = ...;`: the guards still held are
\* dropped; the frame is drawn from the texture and the two values read
PresUnlockLeds ==
    /\ pres_pc = "led1_read"
    /\ lock_led1' = DropGuard(lock_led1)
    /\ lock_led0' = IF pres_holds0 THEN DropGuard(lock_led0) ELSE lock_led0
    /\ pres_holds0' = FALSE
    /\ pres_pc' = "idle"
    /\ UNCHANGED <<lock_pix, sh_pixels, sh_led0, sh_led1, dir_unchanged, pres_i, pres_texture,
                   pres_led0, pres_led1>>
    /\ SyncOnly

\* the steps of the thread of main on the shared state
SyncDirectorNext == DirBegin \/ DirLock \/ DirAccess \/ DirUnlock
\* the steps of the window thread in the RedrawRequested handler
SyncPresenterNext ==
    \/ PresLockPixels \/ PresReadPixel \/ PresUnlockPixels
    \/ PresLockLed0 \/ PresReadLed0 \/ PresUnlockLed0
    \/ PresLockLed1 \/ PresReadLed1 \/ PresUnlockLeds

SyncNext ==
    \/ DirBegin
    \/ DirLock
    \/ DirAccess
    \/ DirUnlock
    \/ PresLockPixels
    \/ PresReadPixel
    \/ PresUnlockPixels
    \/ PresLockLed0
    \/ PresReadLed0
    \/ PresUnlockLed0
    \/ PresLockLed1
    \/ PresReadLed1
    \/ PresUnlockLeds

\* ----------------------------------------------------------- masked image
NoImage == [none |-> TRUE]
ClearedTarget == [i \in 0 .. (MaskTargetDim * MaskTargetDim - 1) |-> BLACK]

MaskInit ==
    /\ arg_color = NoImage
    /\ arg_mask = NoImage
    /\ new_result = "none"
    /\ masked = NoImage
    /\ mi_pixels = <<>>
    /\ target = ClearedTarget
    /\ mi_drawn = FALSE

\* main.rs:40  color_image.bounding_box() != mask_image.bounding_box()
DimensionsDifferWidthOnly(c, m) == c.w # m.w
DimensionsDiffer(c, m) == BoundingBox(c) # BoundingBox(m)

\* MaskedImage::new
MaskedImage_new(c, m, p) ==
    /\ new_result = "none"
    /\ arg_color' = c
    /\ arg_mask' = m
    /\ IF DimensionsDiffer(c, m)
       THEN /\ new_result' = "Err"
            /\ masked' = NoImage
       ELSE /\ new_result' = "Ok"
            /\ masked' = [color_image |-> c, mask_image |-> m, pos |-> p]
    /\ UNCHANGED <<mi_pixels, target, mi_drawn>>
    /\ MaskOnly

\* main.rs:68  bb.top_left.x..bb.bottom_right().unwrap().x   (end exclusive)
XRange(bb) == bb.top_left[1] .. (BottomRight(bb)[1] - 1)
\* main.rs:69  bb.top_left.y..=bb.bottom_right().unwrap().y  (end inclusive)
YRange(bb) == bb.top_left[2] .. BottomRight(bb)[2]

\* main.rs:70-72  y_range.cartesian_product(x_range).map(|(y, x)| Point::new(x, y))
DrawPoints(bb) ==
    LET xs == XRange(bb)
        ys == YRange(bb)
        nx == Cardinality(xs)
        n == nx * Cardinality(ys)
    IN [k \in 1 .. n |->
            Point(bb.top_left[1] + ((k - 1) % nx), bb.top_left[2] + ((k - 1) \div nx))]

\* main.rs:73-79  the filter_map over the points
RECURSIVE MaskedPixels(_, _)
MaskedPixels(mi, points) ==
    IF points = <<>> THEN <<>>
    ELSE LET p == Head(points)
             rest == MaskedPixels(mi, Tail(points))
         IN IF ImagePixel(mi.mask_image, p)
            THEN <<<<PointAdd(p, mi.pos), ImagePixel(mi.color_image, p)>>>> \o rest
            ELSE rest

\* MaskedImage::draw onto a cleared target
MaskedImage_draw ==
    /\ masked # NoImage
    /\ ~mi_drawn
    /\ LET pixels == MaskedPixels(masked, DrawPoints(BoundingBox(masked.color_image)))
       IN /\ mi_pixels' = pixels
          /\ target' = DrawIter(target, MaskTargetDim, MaskTargetDim, pixels)
    /\ mi_drawn' = TRUE
    /\ UNCHANGED <<arg_color, arg_mask, new_result, masked>>
    /\ MaskOnly

ImgDims == 1 .. MaxImgDim
Positions == {Point(x, y) : x \in (-MaxPos) .. MaxPos, y \in (-MaxPos) .. MaxPos}

MaskNext ==
    \/ \E cw \in ImgDims, ch \in ImgDims, mw \in ImgDims, mh \in ImgDims, p \in Positions :
         \E m \in MaskImages(mw, mh) : MaskedImage_new(TaggedColorImage(cw, ch), m, p)
    \/ MaskedImage_draw


\* ------------------------------------------------------ row-glitch engine
NoLine == [line |-> -1, should_glitch |-> FALSE]
NoPixel == [index |-> -1, draw |-> 0, applied |-> FALSE]

FxInit ==
    /\ fb_width = 0
    /\ fb_height = 0
    /\ fb_data = <<>>
    /\ fx_pc = "idle"
    /\ fx_pre = <<>>
    /\ rng_count = 0
    /\ g_max_offset = 0
    /\ g_line = 0
    /\ g_row_pre = <<>>
    /\ g_last = NoLine
    /\ g_log = <<>>
    /\ n_intensity = 0
    /\ n_index = 0
    /\ n_last = NoPixel
    /\ n_writes = <<>>

\* The raw u32 values next_u32 may return here: every column index, and 32,
\* the smallest value whose remainder modulo 128 is not below 32.
GlitchRand == (0 .. (MaxGlitchWidth - 1)) \cup {32}

\* main.rs:201-209  RowOffset::new (fb.width() > 0 is asserted)
RowOffset_new(offset, width) ==
    [offset |-> Min(offset, width), row_width |-> width]

\* main.rs:211-217  RowOffset::range_to
RowOffset_range_to(self, other) ==
    [start |-> Min(Min(self.offset, other), self.row_width),
     end |-> Min(Max(self.offset, other), self.row_width),
     row_width |-> self.row_width]

\* main.rs:229-230  (x as isize).saturating_add(rhs).max(0) as usize).min(row_width)
ClampColumnNoUpperBound(x, rhs, row_width) == Max(x + rhs, 0)
ClampColumn(x, rhs, row_width) == Min(Max(x + rhs, 0), row_width)

\* main.rs:228-232  RowRange::offset
RowRange_offset(self, rhs) ==
    [start |-> ClampColumn(self.start, rhs, self.row_width),
     end |-> ClampColumn(self.end, rhs, self.row_width),
     row_width |-> self.row_width]

\* main.rs:234-236  RowRange::to_range: start..end as the sequence it iterates
RowRange_to_range(self) ==
    [k \in 1 .. Max(self.end - self.start, 0) |-> self.start + k - 1]

\* Iterator::zip: pairs up to the shorter of the two
Zip(a, b) == [k \in 1 .. Min(Len(a), Len(b)) |-> <<a[k], b[k]>>]
\* Iterator::rev of a zip of two exact-size ranges: the same pairs, last first
Rev(s) == [k \in 1 .. Len(s) |-> s[Len(s) + 1 - k]]

\* main.rs:287-295  the order in which the (src, dst) pairs are copied
CopyOrderAlwaysForward(offset, pairs) == pairs
CopyOrder(offset, pairs) == IF offset < 0 THEN pairs ELSE Rev(pairs)

\* main.rs:289 / 293  fb.data.set(row_index + dst, fb.data.get(row_index + src)),
\* pair after pair on the live buffer; the result carries the access log.
RECURSIVE CopyPairs(_, _, _)
CopyPairs(acc, row_index, pairs) ==
    IF pairs = <<>> THEN acc
    ELSE LET src == row_index + Head(pairs)[1]
             dst == row_index + Head(pairs)[2]
             next == [data |-> [acc.data EXCEPT ![dst] = acc.data[src]],
                      log |-> acc.log \o << <<"get", src>>, <<"set", dst>> >>]
         IN CopyPairs(next, row_index, Tail(pairs))

\* the shift drawn from 0 ..= max_offset instead of 0 .. max_offset
GlitchShiftInclusive(r1, width, max_offset) ==
    ((r1 % width) % (max_offset + 1)) - (max_offset \div 2)
\* main.rs:282  (rand_idx() % max_offset) as i32 - (max_offset as i32 / 2)
GlitchShift(r1, width, max_offset) == ((r1 % width) % max_offset) - (max_offset \div 2)

\* main.rs:281-295  the body of `if should_glitch` for one scanline, given the
\* three values rand_idx draws (in evaluation order)
GlitchRow(data, width, line, max_offset, r1, r2, r3) ==
    LET offset == GlitchShift(r1, width, max_offset)
        src == RowOffset_range_to(RowOffset_new(r2 % width, width), r3 % width)
        dst == RowRange_offset(src, offset)
        row_index == line * width
        pairs == CopyOrder(offset, Zip(RowRange_to_range(src), RowRange_to_range(dst)))
        out == CopyPairs([data |-> data, log |-> <<>>], row_index, pairs)
    IN [data |-> out.data, log |-> out.log, offset |-> offset, src |-> src, dst |-> dst]

\* main.rs:279  rng.next_u32() % 128 < 32
ShouldGlitch(r0) == r0 % 128 < 32

\* main.rs:274-276  the early return
GlitchIsNoOpNever(max_offset) == FALSE
GlitchIsNoOp(max_offset) == max_offset = 0

\* VecFrameBufferBackend::new + FrameBuf::new: a width x height buffer whose
\* pixel i carries the tag color (i+1, 0, 0)
GlitchSetup(w, h) ==
    /\ fx_pc = "idle"
    /\ w * h <= MaxGlitchPixels
    /\ fb_width' = w
    /\ fb_height' = h
    /\ fb_data' = [i \in 0 .. (w * h - 1) |-> Rgb565(i + 1, 0, 0)]
    /\ fx_pc' = "ready"
    /\ UNCHANGED <<fx_pre, rng_count, glitch_vars>>
    /\ GlitchOnly

\* glitch(fb, rng, max_offset): entry, main.rs:269-276
GlitchCall(max_offset) ==
    /\ fx_pc = "ready"
    /\ g_max_offset' = max_offset
    /\ fx_pre' = fb_data
    /\ g_row_pre' = fb_data
    /\ g_line' = 0
    /\ rng_count' = 0
    /\ fx_pc' = IF GlitchIsNoOp(max_offset) THEN "done" ELSE "loop"
    /\ UNCHANGED <<fb_width, fb_height, fb_data, g_last, g_log>>
    /\ GlitchOnly

\* one iteration of `for line in 0..fb.height()`, main.rs:278-297
GlitchLine ==
    /\ fx_pc = "loop"
    /\ g_line < fb_height
    /\ g_row_pre' = fb_data
    /\ \E r0 \in GlitchRand :
         IF ~ShouldGlitch(r0)
         THEN /\ g_last' = [line |-> g_line, should_glitch |-> FALSE]
              /\ g_log' = <<>>
              /\ rng_count' = rng_count + 1
              /\ g_line' = g_line + 1
              /\ UNCHANGED <<fb_data, fx_pc>>
         ELSE IF fb_width = 0 \/ g_max_offset = 0
         THEN \* remainder by zero in rand_idx or in the shift: the thread panics
              /\ fx_pc' = "panic"
              /\ rng_count' = rng_count + 2
              /\ g_last' = [line |-> g_line, should_glitch |-> TRUE]
              /\ g_log' = <<>>
              /\ UNCHANGED <<fb_data, g_line>>
         ELSE \E r1 \in GlitchRand, r2 \in GlitchRand, r3 \in GlitchRand :
              LET row == GlitchRow(fb_data, fb_width, g_line, g_max_offset, r1, r2, r3)
              IN /\ fb_data' = row.data
                 /\ g_log' = row.log
                 /\ g_last' = [line |-> g_line, should_glitch |-> TRUE,
                               offset |-> row.offset, src |-> row.src, dst |-> row.dst]
                 /\ rng_count' = rng_count + 4
                 /\ g_line' = g_line + 1
                 /\ UNCHANGED fx_pc
    /\ UNCHANGED <<fb_width, fb_height, g_max_offset, fx_pre>>
    /\ GlitchOnly

\* the for loop is exhausted: glitch returns
GlitchReturn ==
    /\ fx_pc = "loop"
    /\ g_line = fb_height
    /\ fx_pc' = "done"
    /\ UNCHANGED <<fb_width, fb_height, fb_data, fx_pre, rng_count, glitch_vars>>
    /\ GlitchOnly

GlitchNext ==
    \/ \E w \in 0 .. MaxGlitchWidth, h \in 0 .. MaxGlitchHeight : GlitchSetup(w, h)
    \/ \E m \in 0 .. MaxOffset : GlitchCall(m)
    \/ GlitchLine
    \/ GlitchReturn

\* --------------------------------------------------------- noise injector
\* main.rs:242  Intensity::MAX
INTENSITY_MAX == 128

\* main.rs:245-249  Intensity::from
Intensity_from(value) == Min(value, INTENSITY_MAX)

\* The raw u32 values next_u32 may return here.
NoiseRand == {0, 95}
\* The values Intensity::from is given.
NoiseIntensityInputs == {0, 1, 96, 128, 300}

\* main.rs:257  rng.next_u32() as usize % Intensity::MAX.0 < intensity.0
ApplyNoiseInclusive(draw, level) == draw % INTENSITY_MAX <= level
ApplyNoise(draw, level) == draw % INTENSITY_MAX < level

\* main.rs:259-263  the random color
RandomColor(rr, rg, rb) == Rgb565(rr % 32, rg % 64, rb % 32)

\* FrameBufferBackend::nr_elements of the backend, main.rs:189-191
NrElements(width, height) == width * height

\* VecFrameBufferBackend::new + FrameBuf::new for add_noise
NoiseSetup(w, h) ==
    /\ fx_pc = "idle"
    /\ w * h <= MaxNoisePixels
    /\ fb_width' = w
    /\ fb_height' = h
    /\ fb_data' = [i \in 0 .. (w * h - 1) |-> Rgb565(i + 1, 0, 0)]
    /\ fx_pc' = "ready"
    /\ UNCHANGED <<fx_pre, rng_count, noise_vars>>
    /\ NoiseOnly

\* add_noise(fb, rng, intensity): entry, main.rs:251-255
NoiseCall(value) ==
    /\ fx_pc = "ready"
    /\ n_intensity' = Intensity_from(value)
    /\ n_index' = 0
    /\ n_writes' = <<>>
    /\ fx_pre' = fb_data
    /\ rng_count' = 0
    /\ fx_pc' = "noise"
    /\ UNCHANGED <<fb_width, fb_height, fb_data, n_last>>
    /\ NoiseOnly

\* one iteration of `for index in 0..fb.data.nr_elements()`, main.rs:256-266
NoisePixel ==
    /\ fx_pc = "noise"
    /\ n_index < NrElements(fb_width, fb_height)
    /\ \E draw \in NoiseRand :
         IF ApplyNoise(draw, n_intensity)
         THEN \E rr \in NoiseRand, rg \in NoiseRand, rb \in NoiseRand :
                /\ fb_data' = [fb_data EXCEPT ![n_index] = RandomColor(rr, rg, rb)]
                /\ n_writes' = Append(n_writes, <<n_index, RandomColor(rr, rg, rb)>>)
                /\ n_last' = [index |-> n_index, draw |-> draw, applied |-> TRUE]
                /\ rng_count' = rng_count + 4
         ELSE /\ n_last' = [index |-> n_index, draw |-> draw, applied |-> FALSE]
              /\ rng_count' = rng_count + 1
              /\ UNCHANGED <<fb_data, n_writes>>
    /\ n_index' = n_index + 1
    /\ UNCHANGED <<fb_width, fb_height, fx_pc, fx_pre, n_intensity>>
    /\ NoiseOnly

\* the for loop is exhausted: add_noise returns
NoiseReturn ==
    /\ fx_pc = "noise"
    /\ n_index = NrElements(fb_width, fb_height)
    /\ fx_pc' = "done"
    /\ UNCHANGED <<fb_width, fb_height, fb_data, fx_pre, rng_count, noise_vars>>
    /\ NoiseOnly

NoiseNext ==
    \/ \E w \in 1 .. MaxNoisePixels, h \in 1 .. MaxNoisePixels : NoiseSetup(w, h)
    \/ \E v \in NoiseIntensityInputs : NoiseCall(v)
    \/ NoisePixel
    \/ NoiseReturn

\* ------------------------------------------------------ main / draw_loop
\* main.rs:305  shades_of_red.len()
SHADES == 32
\* main.rs:306-308
MAX_INTENSITY == 3
FRAMES_PER_SHADE == 16
UNEXAGGERATED_TIME_FRAMES == FRAMES_PER_SHADE * 8
\* main.rs:311
total_frames == FRAMES_PER_SHADE * SHADES

\* main.rs:305  shades_of_red[idx]
ShadeOfRed(i) == Rgb565(i, 0, 0)

\* main.rs:322
CurrFrame(i, f) == i * FRAMES_PER_SHADE + f

\* the else branch of main.rs:323-328 taken for every frame
ExaggerationAlwaysComputed(curr_frame) ==
    Max(curr_frame - UNEXAGGERATED_TIME_FRAMES, 0) + 1
\* main.rs:323-328  exaggeration.  The f64 value 1.01^(v^1.4) is strictly
\* increasing in v = curr_frame - 128 and above 0, so it is represented by its
\* rank among the values the expression takes: 0 for 0.0, v + 1 for 1.01^(v^1.4).
Exaggeration(curr_frame) ==
    IF curr_frame < UNEXAGGERATED_TIME_FRAMES
    THEN 0
    ELSE (curr_frame - UNEXAGGERATED_TIME_FRAMES) + 1

\* The least v with 1.01^(v^1.4) >= 1e15:
\* 1.01^(337^1.4) = 8.68e14 and 1.01^(338^1.4) = 1.0011e15.
SENTINEL_V == 338

\* the comparison against a bound no exaggeration is below
ExaggerationBelowZero(e) == e < 0
\* main.rs:329  exaggeration < 1e15, on the rank
ExaggerationBelow1e15(e) == e < SENTINEL_V + 1

\* main.rs:335  the string of 28 nines
Sentinel == [kind |-> "sentinel", nines |-> 28]
NoStr == [kind |-> "none"]

\* main.rs:329-336  the time string: format_duration of the elapsed time plus
\* the exaggeration, or the sentinel
ExaggeratedStr(e, elapsed) ==
    IF ExaggerationBelow1e15(e)
    THEN [kind |-> "duration", elapsed |-> elapsed, exaggeration |-> e]
    ELSE Sentinel

\* main.rs:334  glitchiness += 1 in the else branch only
GlitchinessBumpedAlways(g, e) == g + 1
GlitchinessAfter(g, e) == IF ExaggerationBelow1e15(e) THEN g ELSE g + 1

\* main.rs:315  let mut glitchiness = 0, at the top of every pass
GlitchinessKeptAcrossPasses == glitchiness
GlitchinessAtPassStart == 0

\* platform.rs:9-13  Brightness::from, on numerators over BRIGHTNESS_ONE
BRIGHTNESS_ONE == total_frames * total_frames * total_frames
BrightnessUnclamped(value) == value
Brightness_from(value) == Min(Max(value, 0), BRIGHTNESS_ONE)
\* main.rs:339  f32: a significand of 24 bits
F32_SIGNIFICAND == 16777216
\* the spacing of the f32 values around n / BRIGHTNESS_ONE, in numerator units
RECURSIVE F32Ulp(_)
F32Ulp(n) == IF n < F32_SIGNIFICAND THEN 1 ELSE 2 * F32Ulp(n \div 2)
\* the f32 nearest to n / BRIGHTNESS_ONE (ties to even), as a numerator, n >= 0
RoundToF32(n) ==
    LET u == F32Ulp(n)
        q == n \div u
        r == n % u
    IN IF 2 * r < u THEN q * u
       ELSE IF 2 * r > u THEN (q + 1) * u
       ELSE (IF q % 2 = 0 THEN q ELSE q + 1) * u
\* curr_frame / total_frames computed on usize, before the conversion to f32
FrameBrightnessOnIntegers(curr_frame) ==
    Brightness_from((curr_frame \div total_frames) * BRIGHTNESS_ONE)
\* main.rs:338-344  (curr_frame as f32 / total_frames as f32).powf(3.0): the
\* quotient is exact (total_frames is a power of two), the cube is rounded
FrameBrightness(curr_frame) ==
    Brightness_from(RoundToF32(curr_frame * curr_frame * curr_frame))

\* pc.rs:104-105  the FakeLEDs start at 0f32.into()
BrightnessInit ==
    /\ br_in = 0
    /\ br_out = 0

\* The f32 values handed to Brightness::from: around 0.0, around 1.0, spread
\* from below 0.0 to above 1.0, and every value draw_loop computes.
BrightnessInputs ==
    ((-MaxBrightnessExcess) .. MaxBrightnessExcess)
    \cup ((BRIGHTNESS_ONE - MaxBrightnessExcess) .. (BRIGHTNESS_ONE + MaxBrightnessExcess))
    \cup {k * (BRIGHTNESS_ONE \div 8) : k \in -4 .. 12}
    \cup {f * f * f : f \in 0 .. (total_frames - 1)}

\* one call of Brightness::from
BrightnessFrom(x) ==
    /\ br_in' = x
    /\ br_out' = Brightness_from(x)
    /\ BrightnessOnly

BrightnessNext == \E x \in BrightnessInputs : BrightnessFrom(x)

\* the amplitude as idx * MAX_INTENSITY / len, which never reaches MAX_INTENSITY
JitterAmplitudeScaled(i) == (i * MAX_INTENSITY) \div SHADES
\* main.rs:319  idx / (shades_of_red.len() / MAX_INTENSITY)
JitterAmplitude(i) == i \div (SHADES \div MAX_INTENSITY)

\* main.rs:128-137  intensify, given the two values gen_range returns
Intensify(point, amplitude, dx, dy) ==
    IF amplitude = 0 THEN point ELSE Point(point[1] + dx, point[2] + dy)
\* gen_range(-amplitude..amplitude)
JitterRange(amplitude) == IF amplitude = 0 THEN {0} ELSE (-amplitude) .. (amplitude - 1)

\* Rectangle::center of a rectangle at the origin: (size - 1) / 2
CenterOf(w, h) == Point((w - 1) \div 2, (h - 1) \div 2)
\* main.rs:352
lcd_center == CenterOf(LcdWidth, LcdHeight)

\* main.rs:128-137  the values intensify takes from rng, in order
IntensifyRngValues(amplitude, dx, dy) == IF amplitude = 0 THEN <<>> ELSE <<dx, dy>>

JitterInit ==
    /\ jit_idx = 0
    /\ jit_amp = 0
    /\ jit_anchor = lcd_center
    /\ jit_rng = <<>>

\* main.rs:317-319 and 358: a frame of shade i places the text at
\* intensify(&mut rng, lcd_center, intensity)
ShadeIntensify(i) ==
    LET amplitude == JitterAmplitude(i)
    IN \E dx \in JitterRange(amplitude), dy \in JitterRange(amplitude) :
         /\ jit_idx' = i
         /\ jit_amp' = amplitude
         /\ jit_anchor' = Intensify(lcd_center, amplitude, dx, dy)
         /\ jit_rng' = IntensifyRngValues(amplitude, dx, dy)
         /\ JitterOnly

JitterNext == \E i \in 0 .. (SHADES - 1) : ShadeIntensify(i)

LcdPixels == 0 .. (LcdWidth * LcdHeight - 1)
\* main.rs:303  VecFrameBufferBackend::new(size, Rgb565::BLACK)
NewBuffer(fill) == [i \in LcdPixels |-> fill]

\* main.rs:356-363  the text, drawn by the font renderer of embedded-graphics:
\* its footprint is taken to be the one pixel at the anchor, in white
TextPixels(anchor) == << <<anchor, WHITE>> >>

\* main.rs:111-117  the dumpster-fire rasters: one color, mask fully on
DUMPSTER_COLOR == Rgb565(31, 40, 0)
DumpsterColorImage ==
    [w |-> DumpsterWidth, h |-> DumpsterHeight,
     data |-> [i \in 0 .. (DumpsterWidth * DumpsterHeight - 1) |-> DUMPSTER_COLOR]]
DumpsterMaskImage ==
    [w |-> DumpsterWidth, h |-> DumpsterHeight,
     data |-> [i \in 0 .. (DumpsterWidth * DumpsterHeight - 1) |-> TRUE]]

\* main.rs:365  glitchiness > 0 && frame / 4 % 2 == 0
OverlayIgnoresGlitchiness(g, f) == (f \div 4) % 2 = 0
OverlayIgnoresPhase(g, f) == g > 0
OverlayActive(g, f) == g > 0 /\ (f \div 4) % 2 = 0
\* main.rs:366-367
OverlayPos == PointSub(lcd_center, CenterOf(DumpsterWidth, DumpsterHeight))

\* glitch as one call: draws[line] = <<r0, r1, r2, r3>>, the values next_u32
\* returns for that scanline (r1..r3 are read only when the line is corrupted)
RECURSIVE GlitchLines(_, _, _, _, _, _)
GlitchLines(data, width, height, max_offset, draws, line) ==
    IF line >= height THEN data
    ELSE LET d == draws[line]
             next == IF ShouldGlitch(d[1])
                     THEN GlitchRow(data, width, line, max_offset, d[2], d[3], d[4]).data
                     ELSE data
         IN GlitchLines(next, width, height, max_offset, draws, line + 1)
Glitch(data, width, height, max_offset, draws) ==
    IF GlitchIsNoOp(max_offset) THEN data
    ELSE GlitchLines(data, width, height, max_offset, draws, 0)

\* The values next_u32 returns to glitch in the draw loop, per scanline.
\* A scanline is left alone (32), or its whole row 0 .. width-1 is the source
\* and is moved by the least or by the greatest offset rand_idx() can give.
LoopGlitchDraws ==
    {<<32, 0, 0, 0>>} \cup {<<0, r1, 0, LcdWidth - 1>> : r1 \in {0, LcdWidth - 1}}

\* add_noise as one call: draws[index] = <<apply, rr, rg, rb>>
RECURSIVE AddNoiseFrom(_, _, _, _, _)
AddNoiseFrom(data, n, level, draws, index) ==
    IF index >= n THEN data
    ELSE LET d == draws[index]
             next == IF ApplyNoise(d[1], level)
                     THEN [data EXCEPT ![index] = RandomColor(d[2], d[3], d[4])]
                     ELSE data
         IN AddNoiseFrom(next, n, level, draws, index + 1)
AddNoise(data, n, level, draws) == AddNoiseFrom(data, n, level, draws, 0)

\* The values next_u32 returns to add_noise in the draw loop, per pixel.
LoopNoiseDraws == {<<0, 5, 5, 5>>, <<127, 9, 9, 9>>}

\* the `?` operator: an Err leaves draw_loop, back in main's loop
ErrorSwallowed(next_pc) == next_pc
Propagate(next_pc) == "main"

\* main.rs:383  `for _ in 0..FRAMES_PER_SHADE` of the noise burst is exhausted
NoiseBurstOverEarly(n) == n >= FRAMES_PER_SHADE - 1
NoiseBurstOver(n) == n >= FRAMES_PER_SHADE

\* main.rs:379, 395  Duration::from_millis(10)
FRAME_SLEEP_MS == 10

\* a platform whose sleep returns at once
SleepReturnsAtOnce(slept, duration) == slept
\* platform/pc.rs:297-299, platform/esp32.rs:115-123: Platform::sleep blocks the
\* calling thread for `duration`; `slept` is the time already slept
Platform_sleep(slept, duration) == slept + duration

LoopInit ==
    /\ pc = "main"
    /\ returned = "none"
    /\ buffer = <<>>
    /\ led0 = 0
    /\ led1 = 0
    /\ now = 0
    /\ start_time = 0
    /\ curr_time = 0
    /\ glitchiness = 0
    /\ idx = 0
    /\ frame = 0
    /\ noise_frame = 0
    /\ intensity = 0
    /\ exaggeration = 0
    /\ exaggerated_str = NoStr
    /\ brightness = 0
    /\ ops = <<>>
    /\ shown = 0
    /\ slept_ms = 0

\* `?` on an Err: draw_loop returns it to main and its locals are dropped
\* (they read as in LoopInit until the next call assigns them)
ReturnErr(failed_op, next_pc) ==
    /\ ops' = Append(ops, failed_op)
    /\ returned' = "Err"
    /\ pc' = Propagate(next_pc)
    /\ buffer' = <<>>
    /\ start_time' = 0
    /\ curr_time' = 0
    /\ glitchiness' = 0
    /\ idx' = 0
    /\ frame' = 0
    /\ noise_frame' = 0
    /\ intensity' = 0
    /\ exaggeration' = 0
    /\ exaggerated_str' = NoStr
    /\ brightness' = 0
    /\ shown' = 0
    /\ slept_ms' = 0
    /\ UNCHANGED now
    /\ LoopOnly

\* main.rs:406-407 and 300-311: main calls draw_loop, which allocates its buffer
DrawLoopEnter ==
    /\ pc = "main"
    /\ buffer' = NewBuffer(BLACK)
    /\ pc' = "pass"
    /\ UNCHANGED <<returned, led0, led1, now, start_time, curr_time, glitchiness, idx, frame,
                   noise_frame, intensity, exaggeration, exaggerated_str, brightness, ops,
                   shown, slept_ms>>
    /\ LoopOnly

\* main.rs:313-317: the top of `loop`
PassStart ==
    /\ pc = "pass"
    /\ start_time' = now
    /\ glitchiness' = GlitchinessAtPassStart
    /\ idx' = 0
    /\ shown' = 0
    /\ UNCHANGED slept_ms
    /\ pc' = "shade"
    /\ UNCHANGED <<returned, buffer, led0, led1, now, curr_time, frame, noise_frame,
                   intensity, exaggeration, exaggerated_str, brightness, ops>>
    /\ LoopOnly

\* main.rs:317-321: the next shade of `for (idx, &bgcolor)`
ShadeStart ==
    /\ pc = "shade"
    /\ idx < SHADES
    /\ curr_time' = now
    /\ intensity' = JitterAmplitude(idx)
    /\ frame' = 0
    /\ pc' = "frame"
    /\ UNCHANGED <<returned, buffer, led0, led1, now, start_time, glitchiness, idx,
                   noise_frame, exaggeration, exaggerated_str, brightness, ops, shown, slept_ms>>
    /\ LoopOnly

\* main.rs:381-383: the shades are exhausted, the noise burst begins
ShadesDone ==
    /\ pc = "shade"
    /\ idx >= SHADES
    /\ noise_frame' = 0
    /\ pc' = "noise"
    /\ UNCHANGED <<returned, buffer, led0, led1, now, start_time, curr_time, glitchiness,
                   idx, frame, intensity, exaggeration, exaggerated_str, brightness, ops,
                   shown, slept_ms>>
    /\ LoopOnly

\* main.rs:321-344: the next frame of `for frame`, up to the brightness
FrameCompute ==
    /\ pc = "frame"
    /\ frame < FRAMES_PER_SHADE
    /\ LET e == Exaggeration(CurrFrame(idx, frame))
       IN /\ exaggeration' = e
          /\ exaggerated_str' = ExaggeratedStr(e, curr_time - start_time)
          /\ glitchiness' = GlitchinessAfter(glitchiness, e)
    /\ brightness' = FrameBrightness(CurrFrame(idx, frame))
    /\ ops' = <<>>
    /\ slept_ms' = 0
    /\ pc' = "led0"
    /\ UNCHANGED <<returned, buffer, led0, led1, now, start_time, curr_time, idx, frame,
                   noise_frame, intensity, shown>>
    /\ LoopOnly

\* main.rs:380-381: the frames of the shade are exhausted
ShadeEnd ==
    /\ pc = "frame"
    /\ frame >= FRAMES_PER_SHADE
    /\ idx' = idx + 1
    /\ pc' = "shade"
    /\ UNCHANGED <<returned, buffer, led0, led1, now, start_time, curr_time, glitchiness,
                   frame, noise_frame, intensity, exaggeration, exaggerated_str, brightness,
                   ops, shown, slept_ms>>
    /\ LoopOnly

\* an LED that ignores the new value
LedKeepsOld(old, b) == old
\* platform/pc.rs:73-78, platform/esp32.rs:20-25: LED::set_brightness stores the value
\* (the PWM duty of the ESP32, the shared cell of the PC window)
LED_set_brightness(old, b) == b

\* main.rs:345  platform.led0().set_brightness(brightness)?
SetLed0 ==
    /\ pc = "led0"
    /\ led0' = LED_set_brightness(led0, brightness)
    /\ ops' = Append(ops, "led0")
    /\ pc' = "led1"
    /\ UNCHANGED <<returned, buffer, led1, now, start_time, curr_time, glitchiness, idx, frame,
                   noise_frame, intensity, exaggeration, exaggerated_str, brightness, shown,
                   slept_ms>>
    /\ LoopOnly

\* main.rs:345  set_brightness returns Err
SetLed0Fails ==
    /\ pc = "led0"
    /\ ReturnErr("led0_failed", "led1")
    /\ UNCHANGED <<led0, led1>>

\* main.rs:346  platform.led1().set_brightness(brightness)?
SetLed1 ==
    /\ pc = "led1"
    /\ led1' = LED_set_brightness(led1, brightness)
    /\ ops' = Append(ops, "led1")
    /\ pc' = "clear"
    /\ UNCHANGED <<returned, buffer, led0, now, start_time, curr_time, glitchiness, idx, frame,
                   noise_frame, intensity, exaggeration, exaggerated_str, brightness, shown,
                   slept_ms>>
    /\ LoopOnly

\* main.rs:346  set_brightness returns Err
SetLed1Fails ==
    /\ pc = "led1"
    /\ ReturnErr("led1_failed", "clear")
    /\ UNCHANGED <<led0, led1>>

\* main.rs:348-355  framebuffer.clear(bgcolor); a FrameBuf never fails
ClearBuffer ==
    /\ pc = "clear"
    /\ buffer' = [i \in LcdPixels |-> ShadeOfRed(idx)]
    /\ ops' = Append(ops, "clear")
    /\ pc' = "text"
    /\ UNCHANGED <<returned, led0, led1, now, start_time, curr_time, glitchiness, idx, frame,
                   noise_frame, intensity, exaggeration, exaggerated_str, brightness, shown,
                   slept_ms>>
    /\ LoopOnly

\* main.rs:356-363  the text at the jittered center
DrawText ==
    /\ pc = "text"
    /\ \E dx \in JitterRange(intensity), dy \in JitterRange(intensity) :
         buffer' = DrawIter(buffer, LcdWidth, LcdHeight,
                            TextPixels(Intensify(lcd_center, intensity, dx, dy)))
    /\ ops' = Append(ops, "text")
    /\ pc' = "overlay"
    /\ UNCHANGED <<returned, led0, led1, now, start_time, curr_time, glitchiness, idx, frame,
                   noise_frame, intensity, exaggeration, exaggerated_str, brightness, shown,
                   slept_ms>>
    /\ LoopOnly

\* main.rs:365-369  the dumpster-fire overlay
DrawOverlay ==
    /\ pc = "overlay"
    /\ IF ~OverlayActive(glitchiness, frame)
       THEN /\ pc' = "glitch"
            /\ UNCHANGED <<returned, buffer, ops, start_time, curr_time, glitchiness, idx,
                           frame, noise_frame, intensity, exaggeration, exaggerated_str,
                           brightness, shown, slept_ms, now>>
            /\ LoopOnly
       ELSE IF DimensionsDiffer(DumpsterColorImage, DumpsterMaskImage)
       THEN \* dumpster_fire::image_at(pos)? : MaskedImage::new fails
            ReturnErr("overlay_failed", "glitch")
       ELSE LET mi == [color_image |-> DumpsterColorImage, mask_image |-> DumpsterMaskImage,
                       pos |-> OverlayPos]
            IN /\ buffer' = DrawIter(buffer, LcdWidth, LcdHeight,
                                      MaskedPixels(mi, DrawPoints(BoundingBox(mi.color_image))))
               /\ ops' = Append(ops, "overlay")
               /\ pc' = "glitch"
               /\ UNCHANGED <<returned, start_time, curr_time, glitchiness, idx, frame,
                              noise_frame, intensity, exaggeration, exaggerated_str,
                              brightness, shown, slept_ms, now>>
               /\ LoopOnly
    /\ UNCHANGED <<led0, led1>>

\* main.rs:371  glitch(&mut framebuffer, &mut rng, glitchiness as usize)
GlitchFrame ==
    /\ pc = "glitch"
    /\ IF GlitchIsNoOp(glitchiness)
       THEN buffer' = Glitch(buffer, LcdWidth, LcdHeight, glitchiness, <<>>)
       ELSE \E draws \in [0 .. (LcdHeight - 1) -> LoopGlitchDraws] :
              buffer' = Glitch(buffer, LcdWidth, LcdHeight, glitchiness, draws)
    /\ ops' = Append(ops, "glitch")
    /\ pc' = "present"
    /\ UNCHANGED <<returned, led0, led1, now, start_time, curr_time, glitchiness, idx, frame,
                   noise_frame, intensity, exaggeration, exaggerated_str, brightness, shown,
                   slept_ms>>
    /\ LoopOnly

\* main.rs:373-377  platform.lcd().fill_contiguous(&bb, buffer.pixels)
Present ==
    /\ pc = "present"
    /\ ops' = Append(ops, "present")
    /\ shown' = shown + 1
    /\ UNCHANGED slept_ms
    /\ pc' = "sleep"
    /\ UNCHANGED <<returned, buffer, led0, led1, now, start_time, curr_time, glitchiness, idx,
                   frame, noise_frame, intensity, exaggeration, exaggerated_str, brightness>>
    /\ LoopOnly

\* main.rs:377  fill_contiguous returns Err
PresentFails ==
    /\ pc = "present"
    /\ ReturnErr("present_failed", "sleep")
    /\ UNCHANGED <<led0, led1>>

\* main.rs:379  platform.sleep(10 ms), then the next frame
Sleep ==
    /\ pc = "sleep"
    /\ ops' = Append(ops, "sleep")
    /\ slept_ms' = Platform_sleep(slept_ms, FRAME_SLEEP_MS)
    /\ frame' = frame + 1
    /\ pc' = "frame"
    /\ UNCHANGED <<returned, buffer, led0, led1, now, start_time, curr_time, glitchiness,
                   idx, noise_frame, intensity, exaggeration, exaggerated_str, brightness,
                   shown>>
    /\ LoopOnly

\* main.rs:383-387  the next frame of the noise burst: add_noise at Intensity::MAX
NoiseFrame ==
    /\ pc = "noise"
    /\ ~NoiseBurstOver(noise_frame)
    /\ \E draws \in [LcdPixels -> LoopNoiseDraws] :
         buffer' = AddNoise(buffer, NrElements(LcdWidth, LcdHeight), INTENSITY_MAX, draws)
    /\ ops' = <<"noise">>
    /\ slept_ms' = 0
    /\ pc' = "noise_present"
    /\ UNCHANGED <<returned, led0, led1, now, start_time, curr_time, glitchiness, idx, frame,
                   noise_frame, intensity, exaggeration, exaggerated_str, brightness, shown>>
    /\ LoopOnly

\* main.rs:389-393  platform.lcd().fill_contiguous(&bb, buffer.pixels)
NoisePresent ==
    /\ pc = "noise_present"
    /\ ops' = Append(ops, "present")
    /\ shown' = shown + 1
    /\ UNCHANGED slept_ms
    /\ pc' = "noise_sleep"
    /\ UNCHANGED <<returned, buffer, led0, led1, now, start_time, curr_time, glitchiness, idx,
                   frame, noise_frame, intensity, exaggeration, exaggerated_str, brightness>>
    /\ LoopOnly

\* main.rs:393  fill_contiguous returns Err
NoisePresentFails ==
    /\ pc = "noise_present"
    /\ ReturnErr("present_failed", "noise_sleep")
    /\ UNCHANGED <<led0, led1>>

\* main.rs:395  platform.sleep(10 ms), then the next noise frame
NoiseSleep ==
    /\ pc = "noise_sleep"
    /\ ops' = Append(ops, "sleep")
    /\ slept_ms' = Platform_sleep(slept_ms, FRAME_SLEEP_MS)
    /\ noise_frame' = noise_frame + 1
    /\ pc' = "noise"
    /\ UNCHANGED <<returned, buffer, led0, led1, now, start_time, curr_time, glitchiness,
                   idx, frame, intensity, exaggeration, exaggerated_str, brightness, shown>>
    /\ LoopOnly

\* main.rs:396-397  the noise burst is over: back to the top of `loop`
NoiseDone ==
    /\ pc = "noise"
    /\ NoiseBurstOver(noise_frame)
    /\ pc' = "pass"
    /\ UNCHANGED <<returned, buffer, led0, led1, now, start_time, curr_time, glitchiness,
                   idx, frame, noise_frame, intensity, exaggeration, exaggerated_str,
                   brightness, ops, shown, slept_ms>>
    /\ LoopOnly

\* time passes: the clock Instant::now() reads advances
Tick ==
    /\ now < MaxNow
    /\ now' = now + 1
    /\ UNCHANGED <<pc, returned, buffer, led0, led1, start_time, curr_time, glitchiness,
                   idx, frame, noise_frame, intensity, exaggeration, exaggerated_str,
                   brightness, ops, shown, slept_ms>>
    /\ LoopOnly

\* the steps of the thread of main
DirectorNext ==
    \/ DrawLoopEnter
    \/ PassStart
    \/ ShadeStart
    \/ ShadesDone
    \/ FrameCompute
    \/ ShadeEnd
    \/ SetLed0
    \/ SetLed0Fails
    \/ SetLed1
    \/ SetLed1Fails
    \/ ClearBuffer
    \/ DrawText
    \/ DrawOverlay
    \/ GlitchFrame
    \/ Present
    \/ PresentFails
    \/ Sleep
    \/ NoiseFrame
    \/ NoisePresent
    \/ NoisePresentFails
    \/ NoiseSleep
    \/ NoiseDone

LoopNext == DirectorNext \/ Tick

\* ---------------------------------------------------------------- claims
\* C1: MaskedImage::draw emits, for every coordinate p of the color image's
\* bounding box (last column and last row included), exactly one pixel at
\* p + pos carrying the color image's value when the mask is on at p, and no
\* pixel when it is off.
C1_ExpectedPixels ==
    {<<PointAdd(Point(x, y), masked.pos), ImagePixel(masked.color_image, Point(x, y))>> :
        <<x, y>> \in {q \in (0 .. (masked.color_image.w - 1)) \X (0 .. (masked.color_image.h - 1)) :
                        ImagePixel(masked.mask_image, q)}}
C1_DrawEmitsEveryMaskedPixel ==
    mi_drawn =>
        /\ {mi_pixels[k] : k \in 1 .. Len(mi_pixels)} = C1_ExpectedPixels
        /\ Len(mi_pixels) = Cardinality(C1_ExpectedPixels)

\* C2: MaskedImage::new returns Ok exactly when the color image and the mask
\* image have equal bounding boxes; otherwise it returns the error and no
\* image is constructed.
C2_NewOkIffEqualBoxes ==
    new_result # "none" =>
        /\ (new_result = "Ok") <=> (BoundingBox(arg_color) = BoundingBox(arg_mask))
        /\ (new_result = "Err") <=> (BoundingBox(arg_color) # BoundingBox(arg_mask))
        /\ (new_result = "Err") => masked = NoImage
        /\ (new_result = "Ok") =>
              /\ masked # NoImage
              /\ masked.color_image = arg_color
              /\ masked.mask_image = arg_mask
\* new has failed for images of equal width and different height
C2_Witness ==
    /\ new_result = "Err"
    /\ arg_color.w = arg_mask.w
    /\ arg_color.h # arg_mask.h
    /\ masked = NoImage

\* The scanline the last GlitchLine step processed, as index range.
RowIndices(line, width) == (line * width) .. ((line + 1) * width - 1)
LoggedIndices == {g_log[k][2] : k \in 1 .. Len(g_log)}

\* C3: every buffer index glitch reads or writes while processing scanline L
\* lies in [L*width, (L+1)*width): never outside the buffer, never in another
\* row, and the pixels of the other rows are left as they were.
C3_GlitchStaysInRow ==
    g_last.line >= 0 =>
        /\ LoggedIndices \subseteq RowIndices(g_last.line, fb_width)
        /\ LoggedIndices \subseteq DOMAIN fb_data
        /\ \A i \in DOMAIN fb_data :
              i \notin RowIndices(g_last.line, fb_width) => fb_data[i] = g_row_pre[i]
\* the second scanline was corrupted with a destination span that was clipped
\* at the right edge of the row
C3_Witness ==
    /\ g_last.line = 1
    /\ g_last.should_glitch
    /\ fx_pc # "panic"
    /\ Len(g_log) > 0
    /\ g_last.src.end + g_last.offset > fb_width
    /\ g_last.dst.end = fb_width

\* C4: glitch with max_offset = 0 is the identity and consumes no random
\* value.
C4_GlitchZeroIsIdentity ==
    (fx_pc \in {"loop", "done", "panic"} /\ g_max_offset = 0) =>
        /\ fx_pc = "done"
        /\ fb_data = fx_pre
        /\ rng_count = 0
        /\ g_last = NoLine
\* glitch has returned from a call with max_offset = 0 on a buffer with pixels
C4_Witness ==
    /\ fx_pc = "done"
    /\ g_max_offset = 0
    /\ fb_width >= 2
    /\ fb_height >= 2
    /\ fb_data = fx_pre

\* C5: in a corrupted row the copy has overlapping-move semantics: the pairs
\* copied are the zip of the source and destination spans, low-to-high when the
\* shift is negative and high-to-low otherwise; every destination pixel ends up
\* with the value its paired source column held before the row was processed,
\* and no pixel is read after it has been overwritten.
C5_Pairs == Len(g_log) \div 2
C5_OverlappingMove ==
    (g_last.line >= 0 /\ g_last.should_glitch /\ fx_pc # "panic") =>
        LET row == g_last.line * fb_width
            n == C5_Pairs
            got(k) == g_log[2 * k - 1]
            put(k) == g_log[2 * k]
        IN /\ Len(g_log) = 2 * n
           /\ n = Min(Max(g_last.src.end - g_last.src.start, 0),
                      Max(g_last.dst.end - g_last.dst.start, 0))
           /\ \A k \in 1 .. n :
                 /\ got(k)[1] = "get" /\ put(k)[1] = "set"
                 /\ put(k)[2] - (row + g_last.dst.start) = got(k)[2] - (row + g_last.src.start)
                 /\ got(k)[2] - (row + g_last.src.start) \in 0 .. (n - 1)
                 /\ fb_data[put(k)[2]] = g_row_pre[got(k)[2]]
           /\ \A k \in 1 .. (n - 1) :
                 IF g_last.offset < 0
                 THEN put(k + 1)[2] = put(k)[2] + 1
                 ELSE put(k + 1)[2] = put(k)[2] - 1
           /\ \A a \in 1 .. n, b \in 1 .. n : a < b => put(a)[2] # got(b)[2]
\* a row was shifted right by a positive shift with source and destination
\* spans that overlap in more than one pixel
C5_Witness ==
    /\ g_last.line >= 0
    /\ g_last.should_glitch
    /\ fx_pc # "panic"
    /\ g_last.offset > 0
    /\ C5_Pairs >= 2
    /\ g_last.dst.start > g_last.src.start
    /\ g_last.dst.start < g_last.src.end
\* the same for a negative shift (low-to-high copy)
C5_WitnessNegative ==
    /\ g_last.line >= 0
    /\ g_last.should_glitch
    /\ fx_pc # "panic"
    /\ g_last.offset < 0
    /\ C5_Pairs >= 2
    /\ g_last.dst.start < g_last.src.start
    /\ g_last.src.start < g_last.dst.end


\* C6: add_noise rewrites pixel i exactly when that pixel's draw modulo 128 is
\* below the intensity; with intensity 0 the buffer is unchanged, and with
\* intensity 128 every index in [0, nr_elements) is written once, with a color
\* whose red is in [0,32), green in [0,64) and blue in [0,32).
C6_Written == {n_writes[k][1] : k \in 1 .. Len(n_writes)}
C6_NoiseByIntensity ==
    fx_pc \in {"noise", "done"} =>
        /\ (n_last.index >= 0) =>
              /\ n_last.applied <=> (n_last.draw % 128 < n_intensity)
              /\ n_last.applied <=> (n_last.index \in C6_Written)
              /\ n_last.applied => n_writes[Len(n_writes)][1] = n_last.index
        /\ \A i \in DOMAIN fb_data : i \notin C6_Written => fb_data[i] = fx_pre[i]
        /\ \A k \in 1 .. Len(n_writes) : fb_data[n_writes[k][1]] = n_writes[k][2]
        /\ (n_intensity = 0) => (fb_data = fx_pre /\ n_writes = <<>>)
        /\ (n_intensity = 128) =>
              /\ Len(n_writes) = n_index
              /\ \A k \in 1 .. Len(n_writes) :
                    /\ n_writes[k][1] = k - 1
                    /\ n_writes[k][2][1] \in 0 .. 31
                    /\ n_writes[k][2][2] \in 0 .. 63
                    /\ n_writes[k][2][3] \in 0 .. 31
        /\ (fx_pc = "done") => n_index = fb_width * fb_height
\* add_noise has returned from a call with intensity 128 that wrote every pixel
C6_Witness ==
    /\ fx_pc = "done"
    /\ n_intensity = 128
    /\ Len(n_writes) = fb_width * fb_height
    /\ Len(n_writes) >= 2
    /\ \E k \in 1 .. Len(n_writes) : n_writes[k][2] = Rgb565(31, 31, 31)
\* add_noise has returned from a call with intensity 0
C6_WitnessZero ==
    /\ fx_pc = "done"
    /\ n_intensity = 0
    /\ fb_width * fb_height >= 2
    /\ rng_count = fb_width * fb_height

\* the program positions inside one Running frame, after its time string and
\* glitchiness are computed
FramePcs == {"led0", "led1", "clear", "text", "overlay", "glitch", "present", "sleep"}
NoisePcs == {"noise", "noise_present", "noise_sleep"}
FailedOps == {"led0_failed", "led1_failed", "overlay_failed", "present_failed"}
\* the first curr_frame whose exaggeration is at least 1e15
FirstSentinelFrame == UNEXAGGERATED_TIME_FRAMES + SENTINEL_V

\* C7: in every Running frame the time string is the sentinel of 28 nines
\* exactly when the frame's exaggeration is at least 1e15 (curr_frame >= 466),
\* glitchiness grows by exactly 1 in exactly those frames, and in every other
\* frame glitchiness is unchanged and the string is a formatted duration; the
\* rest of the frame leaves glitchiness alone.
C7_FrameStep ==
    (pc = "frame" /\ pc' = "led0") =>
        LET huge == CurrFrame(idx, frame) >= FirstSentinelFrame
        IN /\ huge <=> ~ExaggerationBelow1e15(exaggeration')
           /\ (exaggerated_str' = Sentinel) <=> huge
           /\ Sentinel.nines = 28
           /\ huge => glitchiness' = glitchiness + 1
           /\ ~huge => /\ glitchiness' = glitchiness
                       /\ exaggerated_str'.kind = "duration"
                       /\ exaggerated_str'.elapsed = curr_time - start_time
                       /\ exaggerated_str'.exaggeration = exaggeration'
C7_RestOfFrame ==
    (pc \in FramePcs /\ pc' \in FramePcs \cup {"frame"}) =>
        /\ glitchiness' = glitchiness
        /\ exaggerated_str' = exaggerated_str
C7_SentinelIffHuge == [][C7_FrameStep /\ C7_RestOfFrame]_vars
\* the first sentinel frame: frame 466 shows the sentinel and bumps glitchiness to 1
C7_Witness ==
    /\ pc = "present"
    /\ CurrFrame(idx, frame) = FirstSentinelFrame
    /\ exaggerated_str = Sentinel
    /\ glitchiness = 1
\* the last duration frame: frame 465 shows a duration, glitchiness still 0
C7_WitnessDuration ==
    /\ pc = "present"
    /\ CurrFrame(idx, frame) = FirstSentinelFrame - 1
    /\ exaggerated_str.kind = "duration"
    /\ glitchiness = 0

\* C8: inside one pass glitchiness never decreases from one step (hence one
\* frame) to the next, and it is 0 at the first frame of every pass: the top
\* of the pass sets it to 0, and frame 0 of shade 0 leaves it 0.
C8_Step ==
    /\ (pc # "pass" /\ pc' # "main") => glitchiness' >= glitchiness
    /\ (pc = "pass" /\ pc' # "pass") => glitchiness' = 0
    /\ (pc' \in FramePcs /\ idx' = 0 /\ frame' = 0) => glitchiness' = 0
C8_GlitchinessMonotoneInPass == [][C8_Step]_vars
\* the first frame of a pass that follows a complete pass and its noise
\* burst: led0 still holds the brightness of frame 511, glitchiness is 0 again
C8_Witness ==
    /\ pc = "led0"
    /\ idx = 0
    /\ frame = 0
    /\ glitchiness = 0
    /\ led0 = FrameBrightness(total_frames - 1)
    /\ returned = "none"
\* the last frame of a pass: glitchiness has grown to 46
C8_WitnessGrown ==
    /\ pc = "sleep"
    /\ CurrFrame(idx, frame) = total_frames - 1
    /\ glitchiness = total_frames - FirstSentinelFrame

\* the colours add_noise writes in the draw loop
LoopNoiseColors == {RandomColor(d[2], d[3], d[4]) : d \in LoopNoiseDraws}

\* C9, the shape of a pass: the frames shown so far in the pass number the
\* shades 0..31 in order with 16 frames each, then the 16 noise frames; the
\* background of a Running frame is the idx-th shade of red; a noise frame
\* rewrites every pixel; draw_loop has not returned Ok.
C9_Shape ==
    /\ returned # "Ok"
    /\ pc \in FramePcs =>
         /\ idx \in 0 .. (SHADES - 1)
         /\ frame \in 0 .. (FRAMES_PER_SHADE - 1)
         /\ shown = idx * FRAMES_PER_SHADE + frame + (IF pc = "sleep" THEN 1 ELSE 0)
    /\ pc = "frame" => shown = idx * FRAMES_PER_SHADE + frame
    /\ pc = "text" => \A i \in LcdPixels : buffer[i] = Rgb565(idx, 0, 0)
    /\ pc \in NoisePcs =>
         /\ idx = SHADES
         /\ noise_frame \in 0 .. FRAMES_PER_SHADE
         /\ shown = total_frames + noise_frame + (IF pc = "noise_sleep" THEN 1 ELSE 0)
    /\ pc = "noise_present" => \A i \in LcdPixels : buffer[i] \in LoopNoiseColors
\* C9, the steps between the phases: the noise burst starts only after frame 15
\* of shade 31, ends only after 16 noise frames, and the pass that follows
\* starts at shade 0, frame 0, with a new start timestamp and glitchiness 0.
C9_Step ==
    /\ (pc = "shade" /\ pc' = "noise") => shown = SHADES * FRAMES_PER_SHADE
    /\ (pc = "shade" /\ pc' = "frame") => frame' = 0
    /\ (pc = "noise" /\ pc' = "pass") =>
          /\ noise_frame = FRAMES_PER_SHADE
          /\ shown = (SHADES + 1) * FRAMES_PER_SHADE
    /\ (pc = "pass" /\ pc' # "pass") =>
          /\ pc' = "shade"
          /\ idx' = 0
          /\ start_time' = now
          /\ glitchiness' = 0
    /\ pc # "main" => pc' # "main"
\* C9: absent errors the loop cycles forever: the shape and the steps above
\* hold, and both the noise burst and the first frame of a pass recur forever.
C9_CyclesForever ==
    /\ []C9_Shape
    /\ [][C9_Step]_vars
    /\ []<>(pc = "noise_present")
    /\ []<>(pc = "led0" /\ idx = 0 /\ frame = 0 /\ glitchiness = 0)
\* the end of the noise burst of a second pass whose start timestamp is new
C9_Witness ==
    /\ pc = "noise"
    /\ noise_frame = FRAMES_PER_SHADE
    /\ shown = (SHADES + 1) * FRAMES_PER_SHADE
    /\ start_time > 0
    /\ returned = "none"

\* C10, the state after a failure: a failed operation is the last operation of
\* its frame (no later operation, no present, no sleep, no retry), draw_loop
\* has returned Err, and main can call draw_loop again.
C10_AfterFailure ==
    /\ \A i \in 1 .. Len(ops) : ops[i] \in FailedOps => i = Len(ops)
    /\ (Len(ops) > 0 /\ ops[Len(ops)] \in FailedOps) =>
          /\ returned = "Err"
          /\ pc \in {"main", "pass", "shade", "frame"}
    /\ pc = "main" => ENABLED DrawLoopEnter
\* C10, the steps: a failing operation returns to main at once; the next step
\* of main is a new draw_loop call with a newly allocated black buffer, which
\* starts at shade 0, frame 0, with glitchiness 0.
C10_Step ==
    /\ (ops' # ops /\ Len(ops') > 0 /\ ops'[Len(ops')] \in FailedOps) =>
          /\ pc' = "main"
          /\ returned' = "Err"
          /\ Len(ops') = Len(ops) + 1
    /\ (pc = "main" /\ pc' # "main") =>
          /\ pc' = "pass"
          /\ buffer' = [i \in LcdPixels |-> BLACK]
    /\ (pc = "pass" /\ pc' # "pass") =>
          /\ pc' = "shade"
          /\ idx' = 0
          /\ glitchiness' = 0
    /\ (pc = "shade" /\ idx = 0 /\ pc' # "shade") =>
          /\ pc' = "frame"
          /\ frame' = 0
    /\ (pc = "frame" /\ idx = 0 /\ frame = 0 /\ pc' # "frame") =>
          /\ pc' = "led0"
          /\ glitchiness' = 0
C10_ErrorRestartsDrawLoop == []C10_AfterFailure /\ [][C10_Step]_vars
\* a second failure: led1 still holds the brightness of frame 4 of an earlier
\* call, led0 was set for frame 0 of a later call, whose led1 update failed
C10_Witness ==
    /\ pc = "main"
    /\ returned = "Err"
    /\ ops = <<"led0", "led1_failed">>
    /\ led0 = FrameBrightness(0)
    /\ led1 = FrameBrightness(4)
\* a failure in the noise burst
C10_WitnessNoise ==
    /\ pc = "main"
    /\ returned = "Err"
    /\ ops = <<"noise", "present_failed">>

\* the buffers a frame of shade i can hold after clear and text only
BackgroundPlusText(i, amplitude) ==
    {DrawIter([k \in LcdPixels |-> Rgb565(i, 0, 0)], LcdWidth, LcdHeight,
              TextPixels(Intensify(lcd_center, amplitude, dx, dy))) :
         dx \in JitterRange(amplitude), dy \in JitterRange(amplitude)}

\* C11: in a Running frame whose glitchiness is 0 after the exaggeration step
\* the overlay is not drawn and glitch changes no pixel; the buffer presented
\* is the shade background plus the text.
C11_Step ==
    /\ (pc = "overlay" /\ glitchiness = 0 /\ pc' # "overlay") =>
          /\ pc' = "glitch"
          /\ buffer' = buffer
          /\ ops' = ops
    /\ (pc = "glitch" /\ glitchiness = 0 /\ pc' # "glitch") =>
          /\ pc' = "present"
          /\ buffer' = buffer
C11_Presented ==
    (pc \in {"present", "sleep"} /\ glitchiness = 0) =>
        /\ buffer \in BackgroundPlusText(idx, intensity)
        /\ \A i \in 1 .. Len(ops) : ops[i] # "overlay"
C11_NoGlitchNoOverlayAtZero == []C11_Presented /\ [][C11_Step]_vars
\* the last frame with glitchiness 0 (frame 465) is presented, text visible
C11_Witness ==
    /\ pc = "sleep"
    /\ glitchiness = 0
    /\ CurrFrame(idx, frame) = FirstSentinelFrame - 1
    /\ \E i \in LcdPixels : buffer[i] = WHITE
    /\ ops = <<"led0", "led1", "clear", "text", "glitch", "present">>

\* two decimal digits, the tens first
TwoDigits(n) == DecimalDigit(n \div 10) \o DecimalDigit(n % 10)
\* C12: for S whole seconds format_duration gives ["<years>y "]["<days>d "]
\* ["<hours>:"]MM:SS: the components recombine to S, years, days and hours
\* appear exactly when nonzero, minutes and seconds are always two digits;
\* 0 s is "00:00", 90 s "01:30", 3661 s "1:01:01", 1 day 2 minutes "1d 02:00".
C12_FormatIsComponents ==
    fmt_d # NoDuration =>
        LET S == fmt_d.secs
            years == S \div (365 * 86400)
            days == (S \div 86400) % 365
            hours == (S \div 3600) % 24
            minutes == (S \div 60) % 60
            seconds == S % 60
            yearsPart == IF years # 0 THEN Decimal(years) \o "y " ELSE ""
            daysPart == IF days # 0 THEN Decimal(days) \o "d " ELSE ""
            hoursPart == IF hours # 0 THEN Decimal(hours) \o ":" ELSE ""
        IN /\ (((years * 365 + days) * 24 + hours) * 60 + minutes) * 60 + seconds = S
           /\ days < 365 /\ hours < 24 /\ minutes < 60 /\ seconds < 60
           /\ fmt_out = yearsPart \o daysPart \o hoursPart
                          \o TwoDigits(minutes) \o ":" \o TwoDigits(seconds)
           /\ S = 0 => fmt_out = "00:00"
           /\ S = 90 => fmt_out = "01:30"
           /\ S = 3661 => fmt_out = "1:01:01"
           /\ S = 86400 + 120 => fmt_out = "1d 02:00"
\* 1 day 2 minutes, with a sub-second part that is dropped
C12_Witness ==
    /\ fmt_d = [secs |-> 86400 + 120, nanos |-> 999999999]
    /\ fmt_out = "1d 02:00"
\* every part present
C12_WitnessAllParts ==
    /\ fmt_d # NoDuration
    /\ fmt_d.secs = (((2 * 365 + 364) * 24 + 23) * 60 + 59) * 60 + 59
    /\ fmt_out = "2y 364d 23:59:59"

\* C13: Brightness::from(x) is 0.0 for x < 0, 1.0 for x > 1 and x for x in
\* [0, 1], so the result lies in [0, 1]; this covers every value draw_loop
\* hands to it for an LED.
C13_BrightnessClamped ==
    /\ br_in < 0 => br_out = 0
    /\ br_in > BRIGHTNESS_ONE => br_out = BRIGHTNESS_ONE
    /\ (br_in >= 0 /\ br_in <= BRIGHTNESS_ONE) => br_out = br_in
    /\ br_out >= 0
    /\ br_out <= BRIGHTNESS_ONE
\* a value above 1.0 was clamped to 1.0
C13_Witness ==
    /\ br_in = BRIGHTNESS_ONE + MaxBrightnessExcess
    /\ br_out = BRIGHTNESS_ONE
\* a value below 0.0 was clamped to 0.0
C13_WitnessNegative ==
    /\ br_in = -1
    /\ br_out = 0
\* C13, in the draw loop: the brightness of the frame and the values the LEDs
\* hold lie in [0, 1] in every reachable state.
C13_LedInRange ==
    /\ brightness \in 0 .. BRIGHTNESS_ONE
    /\ led0 \in 0 .. BRIGHTNESS_ONE
    /\ led1 \in 0 .. BRIGHTNESS_ONE

\* the color of the last set(i, .) among the first n set calls, or the fill
RECURSIVE LastSetColor(_, _)
LastSetColor(i, n) ==
    IF n = 0 THEN vec_fill
    ELSE IF vec_sets[n][1] = i THEN vec_sets[n][2]
    ELSE LastSetColor(i, n - 1)
\* C14: after new(size, fill) and any set calls, every index below
\* width*height reads the color of its last set (the fill if none), the
\* buffer keeps width*height elements and nr_elements returns that; a get
\* returns that color; an index >= width*height panics.
C14_VecIsIndependentCells ==
    vec_size # NoSize =>
        LET n == vec_size[1] * vec_size[2]
        IN /\ DOMAIN vec_pixels = 0 .. (n - 1)
           /\ \A i \in 0 .. (n - 1) : vec_pixels[i] = LastSetColor(i, Len(vec_sets))
           /\ vec_last.op = "nr_elements" => vec_last.value = n
           /\ vec_last.op = "get" =>
                 /\ vec_last.index < n
                 /\ vec_last.value = LastSetColor(vec_last.index, Len(vec_sets))
           /\ vec_last.op = "set" => vec_last.index < n
           /\ vec_last.op = "panic" => vec_last.index >= n
\* index 1 was set twice, index 0 never: get(1) returns the second color
C14_Witness ==
    /\ vec_size # NoSize
    /\ vec_size = <<2, 2>>
    /\ vec_fill = BLACK
    /\ vec_sets = << <<1, WHITE>>, <<1, Rgb565(1, 0, 0)>> >>
    /\ vec_last = [op |-> "get", index |-> 1, value |-> Rgb565(1, 0, 0)]
    /\ vec_pixels[0] = BLACK
\* an access at index width*height panicked
C14_WitnessPanic ==
    /\ vec_size # NoSize
    /\ vec_size = <<2, 1>>
    /\ vec_last = [op |-> "panic", index |-> 2]

\* the Mutexes whose guard a thread holds, by its position
DirInside(res) == dir_pc \in DirCalls /\ dir_step \in {"locked", "done"} /\ DirResource = res
PresInside(res) ==
    \/ res = "pix" /\ pres_pc = "pix"
    \/ res = "led0" /\ pres_holds0
    \/ res = "led1" /\ pres_pc \in {"led1_locked", "led1_read"}
LockOf(res) == IF res = "led0" THEN lock_led0 ELSE IF res = "led1" THEN lock_led1 ELSE lock_pix
SyncResources == {"pix", "led0", "led1"}
\* C15: in the PC backend each thread touches the shared pixels and the shared
\* LED values only while it owns that state's Mutex, never both threads at
\* once; the thread of main holds at most one guard, for exactly one get, set,
\* nr_elements or set_brightness, and none between two pixel writes, where the
\* window thread can take the pixel lock; what the window thread has copied
\* under the lock still equals the shared pixels.
C15_LockPerAccess ==
    /\ \A res \in SyncResources :
          /\ ~(DirInside(res) /\ PresInside(res))
          /\ DirInside(res) => LockOf(res) = "director"
          /\ PresInside(res) => LockOf(res) = "presenter"
          /\ LockOf(res) = "director" => DirInside(res)
    /\ dir_step = "locked" => dir_cs = 0
    /\ dir_step = "done" => dir_cs = 1
    /\ (dir_pc = "set" /\ dir_step = "call") =>
          /\ lock_pix # "director"
          /\ pres_pc = "idle" => ENABLED PresLockPixels
    /\ pres_pc = "pix" => \A i \in SyncIndices : i < pres_i => pres_texture[i] = sh_pixels[i]
\* the window thread took the pixel lock between two pixel writes of a frame:
\* its texture has pixel 0 of the new frame and the last pixel of the old one
C15_Witness ==
    /\ pres_pc = "pix"
    /\ pres_i = SyncPixels
    /\ dir_pc = "set"
    /\ dir_step = "call"
    /\ dir_i = 1
    /\ dir_frame = 2
    /\ pres_texture[0] = 2
    /\ pres_texture[SyncPixels - 1] = 1
\* the thread of main waits for led0 while the window thread holds both LED guards
C15_WitnessLedHeld ==
    /\ pres_pc = "led1_read"
    /\ pres_holds0
    /\ dir_pc = "led0"
    /\ dir_step = "call"

\* the steps of a Running frame, in the order of main.rs:345-379
FrameOrder == <<"led0", "led1", "clear", "text", "overlay", "glitch", "present", "sleep">>
FrameOrderNoOverlay == <<"led0", "led1", "clear", "text", "glitch", "present", "sleep">>
IsPrefix(s, t) == Len(s) <= Len(t) /\ \A i \in 1 .. Len(s) : s[i] = t[i]
\* the steps done so far in the frame, when control is at position p
DoneBefore(p) ==
    CASE p = "led0"    -> {<<>>}
      [] p = "led1"    -> {<<"led0">>}
      [] p = "clear"   -> {<<"led0", "led1">>}
      [] p = "text"    -> {<<"led0", "led1", "clear">>}
      [] p = "overlay" -> {<<"led0", "led1", "clear", "text">>}
      [] p = "glitch"  -> {<<"led0", "led1", "clear", "text">>,
                           <<"led0", "led1", "clear", "text", "overlay">>}
      [] p = "present" -> {<<"led0", "led1", "clear", "text", "glitch">>,
                           <<"led0", "led1", "clear", "text", "overlay", "glitch">>}
      [] p = "sleep"   -> {<<"led0", "led1", "clear", "text", "glitch", "present">>,
                           <<"led0", "led1", "clear", "text", "overlay", "glitch", "present">>}
\* a frame of the Running phase has completed and the next has not begun
FrameCompleted == Len(ops) > 1 /\ ops[1] = "led0" /\ ops[Len(ops)] = "sleep"
C16_Order ==
    /\ pc \in FramePcs =>
          /\ ops \in DoneBefore(pc)
          /\ IsPrefix(ops, FrameOrder) \/ IsPrefix(ops, FrameOrderNoOverlay)
          \* every earlier frame of the pass has been presented, this one has
          \* been presented iff control is past the present
          /\ shown = CurrFrame(idx, frame) + (IF pc = "sleep" THEN 1 ELSE 0)
          /\ slept_ms = 0
    /\ FrameCompleted =>
          /\ ops \in {FrameOrder, FrameOrderNoOverlay}
          /\ slept_ms = 10
          /\ pc = "frame" => shown = CurrFrame(idx, frame)
C16_Step ==
    \* the buffer is written by clear, text, overlay and glitch only (and by the
    \* noise burst and the start of a new draw_loop call)
    /\ (pc \in {"led0", "led1", "present", "sleep", "frame", "shade", "pass"} /\ pc' # "main") =>
          buffer' = buffer
    /\ (pc = "clear" /\ pc' # "clear") =>
          buffer' = [i \in LcdPixels |-> Rgb565(idx, 0, 0)]
    \* the present reads the buffer and returns; the sleep follows it
    /\ (pc = "present" /\ pc' \notin {"present", "main"}) =>
          /\ pc' = "sleep"
          /\ shown' = shown + 1
    /\ (pc = "sleep" /\ pc' # "sleep") =>
          /\ pc' = "frame"
          /\ slept_ms' = 10
          /\ shown' = shown
\* C16: a Running frame that completes has set led0, set led1, cleared the
\* buffer to the shade color, drawn the text, optionally the overlay, applied
\* the glitch, presented the buffer once and slept 10 ms once, in this order;
\* every frame before it in the pass was presented before its first buffer
\* write, and the buffer is not written between the present and the sleep.
C16_FrameStepsInOrder == []C16_Order /\ [][C16_Step]_vars
\* a completed frame with the overlay (frame 466, the first sentinel frame)
C16_Witness ==
    /\ FrameCompleted
    /\ ops = FrameOrder
    /\ pc = "frame"
    /\ shown = 467
\* a completed frame without the overlay, the second of a pass
C16_WitnessNoOverlay ==
    /\ FrameCompleted
    /\ ops = FrameOrderNoOverlay
    /\ shown = 2
    /\ slept_ms = 10

\* positions of a Running frame after both LEDs were set
AfterLeds == {"clear", "text", "overlay", "glitch", "present", "sleep"}
C17_AtPresent ==
    /\ C13_LedInRange
    /\ pc = "led1" => led0 = brightness
    /\ pc \in AfterLeds => (led0 = brightness /\ led1 = brightness)
    /\ pc \in {"present", "sleep", "noise_present", "noise_sleep"} => led0 = led1
    \* the noise burst keeps the brightness of the last Running frame
    /\ pc \in NoisePcs => (led0 = FrameBrightness(total_frames - 1) /\ led1 = led0)
C17_Step ==
    /\ (pc = "led0" /\ pc' = "led1") => (led0' = brightness /\ led1' = led1)
    /\ (pc = "led1" /\ pc' = "clear") => (led1' = brightness /\ led0' = led0)
    /\ pc \notin {"led0", "led1"} => (led0' = led0 /\ led1' = led1)
    /\ pc' = "main" => (led0' = led0 /\ led1' = led1)
\* C17: in every Running frame led0 and led1 are set to the same brightness, a
\* value in [0, 1]; at every present, of a Running or a noise-burst frame, in
\* any pass and after any number of failed draw_loop calls, the value last
\* stored in led0 equals the value last stored in led1.
C17_LedsIdentical == []C17_AtPresent /\ [][C17_Step]_vars
\* a present in a draw_loop call made after a failure that left the LEDs
\* different (led0 set for frame 300, the led1 update failed)
C17_Witness ==
    /\ pc = "present"
    /\ returned = "Err"
    /\ CurrFrame(idx, frame) = 300
    /\ led0 = led1
    /\ led0 = FrameBrightness(300)
    /\ led0 # FrameBrightness(299)
\* the LEDs differ between two draw_loop calls
C17_WitnessDiffer ==
    /\ pc = "main"
    /\ ops = <<"led0", "led1_failed">>
    /\ led0 = FrameBrightness(300)
    /\ led1 = FrameBrightness(299)
    /\ led0 # led1
\* a present of the noise burst
C17_WitnessNoise ==
    /\ pc = "noise_present"
    /\ led0 = led1
    /\ led0 = FrameBrightness(total_frames - 1)
    /\ led0 > 0

\* the frames of a shade in which the overlay phase is active
OverlayPhaseFrames == {0, 1, 2, 3, 8, 9, 10, 11}
\* the overlay was drawn in the current frame
OverlayDrawn == \E i \in 1 .. Len(ops) : ops[i] = "overlay"
C18_Step ==
    /\ (pc = "overlay" /\ pc' = "glitch") =>
          /\ OverlayDrawn' <=>
                (glitchiness > 0 /\ (frame \div 4) % 2 = 0)
          /\ OverlayDrawn' <=>
                (glitchiness > 0 /\ frame \in OverlayPhaseFrames)
          /\ ~OverlayDrawn' => buffer' = buffer
          /\ glitchiness' = glitchiness
C18_Drawn ==
    /\ pc \in FramePcs => frame \in 0 .. (FRAMES_PER_SHADE - 1)
    /\ pc \in {"glitch", "present", "sleep"} =>
          (OverlayDrawn <=> (glitchiness > 0 /\ frame \in OverlayPhaseFrames))
    \* the glitchiness tested is the one after this frame's update
    /\ pc \in FramePcs =>
          glitchiness = (IF CurrFrame(idx, frame) >= FirstSentinelFrame
                         THEN CurrFrame(idx, frame) - FirstSentinelFrame + 1 ELSE 0)
\* C18: in a Running frame the overlay is drawn iff glitchiness, after the
\* frame's update, is > 0 and (f div 4) mod 2 = 0 for the frame-within-shade
\* counter f in 0..15: frames 0-3 and 8-11 of a shade, not 4-7 and 12-15.
C18_OverlayIffGlitchyAndPhase == []C18_Drawn /\ [][C18_Step]_vars
\* frame 8 of a shade with glitchiness > 0: the overlay was drawn
C18_Witness ==
    /\ pc = "glitch"
    /\ frame = 8
    /\ glitchiness > 0
    /\ OverlayDrawn
\* frame 12 of the same shades: glitchiness > 0 and no overlay
C18_WitnessInactive ==
    /\ pc = "glitch"
    /\ frame = 12
    /\ glitchiness > 0
    /\ ~OverlayDrawn
\* frame 0 of a shade before the sentinel: phase active, glitchiness 0, no overlay
C18_WitnessNoGlitch ==
    /\ pc = "glitch"
    /\ frame = 0
    /\ glitchiness = 0
    /\ ~OverlayDrawn

Abs(x) == IF x < 0 THEN -x ELSE x
C19_Amplitude ==
    /\ jit_idx \in 0 .. 31
    /\ jit_amp = jit_idx \div 10
    /\ jit_amp \in 0 .. 3
    /\ Abs(jit_anchor[1] - lcd_center[1]) <= jit_amp
    /\ Abs(jit_anchor[2] - lcd_center[2]) <= jit_amp
    /\ jit_amp = 0 => (jit_anchor = lcd_center /\ jit_rng = <<>>)
    /\ jit_amp > 0 =>
          /\ Len(jit_rng) = 2
          /\ jit_anchor = Point(lcd_center[1] + jit_rng[1], lcd_center[2] + jit_rng[2])
C19_Step ==
    /\ jit_idx' >= jit_idx => jit_amp' >= jit_amp
    /\ jit_idx' = jit_idx + 1 => jit_amp' \in {jit_amp, jit_amp + 1}
\* C19: for shade index idx in 0..31 the jitter amplitude is a = idx div 10, in
\* 0..3 and non-decreasing in idx; the text anchor differs from the display
\* center by dx, dy with |dx| <= a and |dy| <= a; when a = 0 the anchor is the
\* center and no random value is drawn.
C19_JitterBounded == []C19_Amplitude /\ [][C19_Step]_vars
\* the largest displacement: amplitude 3 at shade 31, dx = dy = -3
C19_Witness ==
    /\ jit_idx = 31
    /\ jit_amp = 3
    /\ jit_anchor = Point(lcd_center[1] - 3, lcd_center[2] - 3)
\* amplitude 0 at shade 9, the last shade without jitter
C19_WitnessZero ==
    /\ jit_idx = 9
    /\ jit_amp = 0
    /\ jit_anchor = lcd_center
    /\ jit_rng = <<>>
\* amplitude 1 at shade 10 with both random values 0: the anchor is the center
C19_WitnessCenter ==
    /\ jit_idx = 10
    /\ jit_amp = 1
    /\ jit_rng = <<0, 0>>
    /\ jit_anchor = lcd_center

\* the string displayed for an elapsed time with no exaggeration
RealElapsedStr(elapsed) == [kind |-> "duration", elapsed |-> elapsed, exaggeration |-> 0]
C20_Step ==
    (pc = "frame" /\ pc' = "led0" /\ CurrFrame(idx, frame) < UNEXAGGERATED_TIME_FRAMES) =>
        /\ exaggeration' = 0
        /\ exaggerated_str' = RealElapsedStr(now - start_time)
\* C20: in every Running frame with curr_frame < 128 the displayed duration is
\* the time on the clock from the pass's start timestamp to that frame, with
\* zero exaggeration added.
C20_DisplayedIsRealElapsed == [][C20_Step]_vars
\* what the code displays in these frames: the time from the pass's start to
\* the start of the frame's shade, the same for the 16 frames of the shade
C20_ShadeStep ==
    (pc = "frame" /\ pc' = "led0" /\ CurrFrame(idx, frame) < UNEXAGGERATED_TIME_FRAMES) =>
        /\ exaggeration' = 0
        /\ exaggerated_str' = RealElapsedStr(curr_time - start_time)
        /\ (frame > 0 /\ exaggerated_str.kind = "duration") =>
              exaggerated_str'.elapsed = exaggerated_str.elapsed
C20_DisplayedIsElapsedAtShadeStart == [][C20_ShadeStep]_vars
\* a frame below the threshold that displays 0 when the clock has advanced
\* since the pass began
C20_WitnessStale ==
    /\ pc = "led0"
    /\ CurrFrame(idx, frame) = 1
    /\ exaggerated_str = RealElapsedStr(0)
    /\ start_time = 0
    /\ now = 1

\* a row was corrupted by the last iteration of glitch's loop
RowCorrupted ==
    /\ fx_pc \in {"loop", "done"}
    /\ g_last.line >= 0
    /\ g_last.should_glitch
\* the destination columns written in that row, in the order of the writes
WrittenColumns ==
    LET sets == SelectSeq(g_log, LAMBDA e : e[1] = "set")
    IN [k \in 1 .. Len(sets) |-> sets[k][2] - g_last.line * fb_width]
\* the shifted span starts left of column 0
LeftClipped == g_last.src.start + g_last.offset < 0
\* the shifted span ends right of the last column
RightClipped == g_last.src.end + g_last.offset > fb_width
\* C21: in a corrupted row with signed shift s every destination column d that
\* glitch writes receives the pre-glitch value of column d - s, also when the
\* shifted span is clipped at the left or the right edge of the row.
C21_RowShiftedByOffset ==
    RowCorrupted =>
        \A k \in 1 .. Len(WrittenColumns) :
            LET d == WrittenColumns[k]
                row_index == g_last.line * fb_width
            IN /\ d - g_last.offset \in 0 .. (fb_width - 1)
               /\ fb_data[row_index + d] = g_row_pre[row_index + d - g_last.offset]
\* what the code does: the pairs are zipped from the start of both ranges, so
\* a span clipped at the left edge is copied from the start of the source
\* span: column d receives column src.start + d
C21_RowShiftedUnlessLeftClipped ==
    RowCorrupted =>
        \A k \in 1 .. Len(WrittenColumns) :
            LET d == WrittenColumns[k]
                row_index == g_last.line * fb_width
                from == IF LeftClipped THEN g_last.src.start + d ELSE d - g_last.offset
            IN /\ from \in 0 .. (fb_width - 1)
               /\ fb_data[row_index + d] = g_row_pre[row_index + from]
\* a span clipped at the left edge: source columns 1..2 shifted by -2, column 0
\* receives the value of column 1, not of column 2
C21_WitnessLeftClip ==
    /\ RowCorrupted
    /\ g_last.offset = -2
    /\ g_last.src.start = 1
    /\ g_last.src.end = 3
    /\ WrittenColumns = <<0>>
    /\ fb_data[g_last.line * fb_width] = g_row_pre[g_last.line * fb_width + 1]
\* a span clipped at the right edge is shifted by the offset
C21_WitnessRightClip ==
    /\ RowCorrupted
    /\ RightClipped
    /\ g_last.offset = 2
    /\ Len(WrittenColumns) = 2
    /\ g_last.src.end - g_last.src.start = 3

\* the largest rounding error of an f32 below 1, in numerator units (half of
\* the spacing 8 of the values in [1/2, 1))
HalfUlpBelowOne == F32Ulp(BRIGHTNESS_ONE - 1) \div 2
C22_Values ==
    /\ pc \in AfterLeds =>
          /\ led0 = brightness
          /\ Abs(led0 - CurrFrame(idx, frame) * CurrFrame(idx, frame) * CurrFrame(idx, frame))
                <= HalfUlpBelowOne
          /\ CurrFrame(idx, frame) = 0 <=> led0 = 0
          /\ led0 < 512 * 512 * 512
    /\ pc \in NoisePcs => (led0 > 0 /\ led0 < 512 * 512 * 512)
C22_Step ==
    \* the brightness computed for a frame
    /\ (pc = "frame" /\ pc' = "led0") =>
          /\ CurrFrame(idx, frame) = 0 => brightness' = 0
          /\ CurrFrame(idx, frame) > 0 => brightness' > brightness
    \* the value set on the LEDs: above the one of the frame before
    /\ (pc = "led0" /\ pc' = "led1") =>
          /\ CurrFrame(idx, frame) = 0 => led0' = 0
          /\ CurrFrame(idx, frame) > 0 => led0' > led0
    /\ (pc = "led1" /\ pc' = "clear") =>
          /\ CurrFrame(idx, frame) = 0 => led1' = 0
          /\ CurrFrame(idx, frame) > 0 => led1' > led1
\* C22: over the Running frames of a pass the brightness set on the LEDs is
\* (curr_frame / 512)^3 as an f32: 0 at frame 0, strictly increasing with every
\* frame, strictly below 1 at frame 511, and 0 again at frame 0 of the next pass.
C22_BrightnessCubic == []C22_Values /\ [][C22_Step]_vars
\* frame 0 of a second pass: led0 is back at 0, led1 still holds frame 511's value
C22_Witness ==
    /\ pc = "led1"
    /\ CurrFrame(idx, frame) = 0
    /\ led0 = 0
    /\ led1 > 0
    /\ led1 = FrameBrightness(511)
    /\ returned # "Err"
\* the last frame: a rounded value strictly below 1
C22_WitnessLast ==
    /\ pc = "present"
    /\ CurrFrame(idx, frame) = 511
    /\ led0 = 133432832
    /\ led0 # 511 * 511 * 511

\* the frame of the pass computed last showed the sentinel
C23_Values ==
    pc \in FramePcs =>
        LET cf == CurrFrame(idx, frame)
        IN /\ cf < 128 => exaggeration = 0
           /\ cf >= 128 => exaggeration > 0
           /\ (exaggerated_str = Sentinel) <=> glitchiness > 0
           \* the sentinel frames up to this one are FirstSentinelFrame .. cf
           /\ exaggerated_str = Sentinel => glitchiness = cf - FirstSentinelFrame + 1
           /\ exaggerated_str # Sentinel => cf < FirstSentinelFrame
C23_Step ==
    (pc = "frame" /\ pc' = "led0") =>
        LET cf == CurrFrame(idx, frame)
        IN \* frames 1.. of a pass: `exaggeration`, `exaggerated_str` and
           \* `glitchiness` still hold the values of frame cf - 1
           /\ cf > 0 =>
                 /\ exaggeration' >= exaggeration
                 /\ exaggerated_str = Sentinel => exaggerated_str' = Sentinel
                 /\ glitchiness' =
                       glitchiness + (IF exaggerated_str' = Sentinel THEN 1 ELSE 0)
           /\ cf = 0 =>
                 /\ exaggeration' = 0
                 /\ exaggerated_str' # Sentinel
                 /\ glitchiness' = 0
\* C23: within a pass the exaggeration is 0 for curr_frame < 128 and
\* non-decreasing from 128 on; once a frame shows the sentinel every later
\* Running frame of the pass shows it, and glitchiness at frame f is the
\* number of sentinel frames up to and including f.
C23_SentinelSuffix == []C23_Values /\ [][C23_Step]_vars
\* the second sentinel frame of a pass
C23_Witness ==
    /\ pc = "led0"
    /\ CurrFrame(idx, frame) = FirstSentinelFrame + 1
    /\ exaggerated_str = Sentinel
    /\ glitchiness = 2
\* the first frame with a non-zero exaggeration
C23_WitnessThreshold ==
    /\ pc = "led0"
    /\ CurrFrame(idx, frame) = 128
    /\ exaggeration > 0
    /\ exaggerated_str.kind = "duration"
    /\ glitchiness = 0

\* the largest glitchiness of a pass: one per sentinel frame
MaxGlitchiness == total_frames - FirstSentinelFrame
C24_Range ==
    /\ glitchiness \in 0 .. 128
    /\ MaxGlitchiness <= INTENSITY_MAX
C24_Step ==
    \* the glitch step of a frame works with the frame's glitchiness
    (pc = "glitch" /\ pc' = "present") =>
        /\ glitchiness \in 0 .. 128
        /\ glitchiness' = glitchiness
        /\ glitchiness = 0 => buffer' = buffer
\* C24: in every reachable state the max_offset handed to glitch lies in
\* [0, 128]: for every Running frame of every pass the value passed is at
\* most 128.
C24_MaxOffsetAtMost128 == []C24_Range /\ [][C24_Step]_vars
\* the largest value handed to glitch: 46, in the last frame of a pass
C24_Witness ==
    /\ pc = "glitch"
    /\ CurrFrame(idx, frame) = total_frames - 1
    /\ glitchiness = 46

\* the operations of a frame of the noise burst, in the order of main.rs:387-395
NoiseOrder == <<"noise", "present", "sleep">>
C25_InBurst ==
    /\ pc \in NoisePcs =>
          \* both LEDs hold the brightness of frame 511, set before the burst
          /\ led0 = FrameBrightness(511)
          /\ led1 = FrameBrightness(511)
          /\ led0 > 0
          /\ brightness = led0
    /\ pc = "noise_present" => ops = <<"noise">>
    /\ pc = "noise_sleep" => ops = <<"noise", "present">>
    /\ (pc = "noise" /\ noise_frame > 0) => ops = NoiseOrder
    /\ (pc = "noise" /\ noise_frame = 0) => ops \in {FrameOrder, FrameOrderNoOverlay}
    /\ (pc \in {"noise_present", "noise_sleep"} \/ (pc = "noise" /\ noise_frame > 0)) =>
          \* add_noise at Intensity::MAX has replaced every pixel
          \A i \in LcdPixels : buffer[i] \in LoopNoiseColors
C25_Step ==
    \* no step of the burst touches an LED, its failure included
    /\ pc \in NoisePcs => (led0' = led0 /\ led1' = led1 /\ (pc' # "main" => brightness' = brightness))
    \* the buffer is written by add_noise only
    /\ (pc \in {"noise_present", "noise_sleep"} /\ pc' # "main") => buffer' = buffer
    /\ (pc = "noise" /\ pc' = "pass") => (buffer' = buffer /\ noise_frame = FRAMES_PER_SHADE)
    \* from the end of the burst the LEDs are kept until the LED steps of the
    \* next frame 0, which set 0
    /\ pc \in {"pass", "shade", "frame"} => (led0' = led0 /\ led1' = led1)
    /\ (pc = "led0" /\ pc' = "led1" /\ CurrFrame(idx, frame) = 0) => led0' = 0
    /\ (pc = "led1" /\ pc' = "clear" /\ CurrFrame(idx, frame) = 0) => led1' = 0
\* C25: the noise burst leaves the LEDs unchanged: none of its 16 frames
\* performs an LED operation, each frame is add_noise, present, sleep, both LEDs
\* keep the brightness of frame 511 until frame 0 of the next pass sets them to
\* 0, and the burst neither clears the buffer nor draws text or overlay.
C25_NoiseBurstKeepsLeds == []C25_InBurst /\ [][C25_Step]_vars
\* the last frame of the burst has been presented, the LEDs still at frame 511's value
C25_Witness ==
    /\ pc = "noise_sleep"
    /\ noise_frame = FRAMES_PER_SHADE - 1
    /\ ops = <<"noise", "present">>
    /\ led0 = FrameBrightness(511)
    /\ led1 = led0
\* after the burst, before frame 0 of the next pass: the LEDs are still bright
C25_WitnessAfter ==
    /\ pc = "led0"
    /\ CurrFrame(idx, frame) = 0
    /\ ops = <<>>
    /\ led0 = FrameBrightness(511)
    /\ led1 = FrameBrightness(511)
    /\ brightness = 0

\* the Mutexes the thread of main / the window thread holds
DirHeld == {r \in SyncResources : LockOf(r) = "director"}
PresHeld == {r \in SyncResources : LockOf(r) = "presenter"}
\* a thread is inside lock(), waiting for the Mutex
DirWaiting == dir_pc \in DirCalls /\ dir_step = "call"
PresWaitingPixels == pres_pc = "idle"
PresWaitingLed0 == pres_pc = "led0"
PresWaitingLed1 == pres_pc = "led0_read"
C26_HoldAndWait ==
    /\ Cardinality(DirHeld) <= 1
    \* the thread of main neither waits nor sleeps with a guard
    /\ (DirWaiting \/ dir_pc = "sleep") => DirHeld = {}
    \* the window thread has dropped the pixel guard before it asks for an LED
    /\ "pix" \in PresHeld => PresHeld = {"pix"}
    /\ (PresWaitingLed0 \/ PresWaitingLed1) => "pix" \notin PresHeld
    /\ PresWaitingPixels => PresHeld = {}
    \* the thread of main can always take a step, or the window thread can
    /\ ENABLED SyncDirectorNext \/ ENABLED SyncPresenterNext
C26_WitnessHoldAndWait ==
    /\ PresWaitingLed1
    /\ pres_holds0
    /\ lock_led1 = "director"

\* C27: for max_offset = m > 0 the signed shift of a corrupted row lies in
\* [-(m div 2), m - 1 - (m div 2)]; with m = 1 the shift is 0 and glitch leaves
\* the buffer unchanged.
C27_ShiftRange ==
    /\ RowCorrupted =>
          /\ g_max_offset > 0
          /\ g_last.offset >= -(g_max_offset \div 2)
          /\ g_last.offset <= g_max_offset - 1 - (g_max_offset \div 2)
          /\ g_max_offset = 1 => g_last.offset = 0
          /\ g_last.offset = 0 => fb_data = g_row_pre
    \* glitch with max_offset = 1: whatever rows are corrupted, no pixel changes
    /\ (fx_pc \in {"loop", "done"} /\ g_max_offset = 1) => fb_data = fx_pre
\* a row corrupted with max_offset = 1: pixels copied onto themselves
C27_Witness ==
    /\ RowCorrupted
    /\ g_max_offset = 1
    /\ g_last.offset = 0
    /\ Len(g_log) >= 4
    /\ fb_data = fx_pre
\* both ends of the range with max_offset = 5: shifts -2 and 2
C27_WitnessLow ==
    /\ RowCorrupted
    /\ g_max_offset = 5
    /\ g_last.offset = -2
C27_WitnessHigh ==
    /\ RowCorrupted
    /\ g_max_offset = 5
    /\ g_last.offset = 2
\* C27 in the draw loop: the first sentinel frame of a pass has glitchiness 1,
\* and its glitch step changes no pixel although glitchiness > 0.
C27_FirstSentinelStep ==
    (pc = "glitch" /\ pc' = "present" /\ glitchiness = 1) =>
        /\ CurrFrame(idx, frame) = FirstSentinelFrame
        /\ buffer' = buffer
C27_FirstSentinelFrameUnshifted == [][C27_FirstSentinelStep]_vars

\* -------------------------------------------------------- specifications
Init ==
    /\ MaskInit /\ FxInit /\ LoopInit /\ FormatInit /\ BrightnessInit /\ VecInit /\ SyncInit
    /\ JitterInit

SpecMask == Init /\ [][MaskNext]_vars
SpecGlitch == Init /\ [][GlitchNext]_vars
SpecNoise == Init /\ [][NoiseNext]_vars
Spec == Init /\ [][LoopNext]_vars
SpecFormat == Init /\ [][FormatNext]_vars
SpecBrightness == Init /\ [][BrightnessNext]_vars
SpecJitter == Init /\ [][JitterNext]_vars
SpecVec == Init /\ [][VecNext]_vars
SpecSync == Init /\ [][SyncNext]_vars
\* the PC backend under fair scheduling: a thread that can take a step again
\* and again does take one (main.rs:313 `loop`; pc.rs:273 AboutToWait requests
\* the next redraw), so a free Mutex is not withheld from a waiting thread
SpecSyncFair ==
    Init /\ [][SyncNext]_vars /\ SF_vars(SyncDirectorNext) /\ SF_vars(SyncPresenterNext)

\* the draw loop when no LED or LCD operation fails; the thread of main is
\* always scheduled again (set_brightness, fill_contiguous and sleep return)
NoErrorDirectorNext ==
    \/ DrawLoopEnter
    \/ PassStart
    \/ ShadeStart
    \/ ShadesDone
    \/ FrameCompute
    \/ ShadeEnd
    \/ SetLed0
    \/ SetLed1
    \/ ClearBuffer
    \/ DrawText
    \/ DrawOverlay
    \/ GlitchFrame
    \/ Present
    \/ Sleep
    \/ NoiseFrame
    \/ NoisePresent
    \/ NoiseSleep
    \/ NoiseDone
NoErrorNext == NoErrorDirectorNext \/ Tick
SpecNoErrors == Init /\ [][NoErrorNext]_vars /\ WF_vars(NoErrorDirectorNext)

====
